---------------------------- MODULE Spec2Model ----------------------------
(***************************************************************************)
(* A model of the scheduling core of friday, of its journal and of the     *)
(* recap conversation of its Telegram bot:                                 *)
(*   SpecSlots     core/calendar.py  find_free_slots, and find_free_slots  *)
(*                                   of friday/calendar.py on its result   *)
(*   SpecOoo       core/calendar.py  drop_redundant_ooo                    *)
(*   SpecClassify  core/tasks.py     Task.is_urgent, Task.quadrant_label,  *)
(*                                   filter_actionable and filter_notes;   *)
(*                                   is_during_hours of core/calendar.py   *)
(*   SpecTasks     core/briefing.py  assemble_briefing: filter_actionable, *)
(*                                   categorize_tasks and sort_by_priority *)
(*                                   of core/tasks.py                      *)
(*   SpecSort      core/tasks.py     sort_by_priority                      *)
(*   SpecTimezones core/calendar.py  find_free_slots on naive and aware    *)
(*                                   datetimes                             *)
(*   SpecConflicts core/calendar.py  find_conflicts                        *)
(*   SpecBriefing  core/briefing.py  assemble_briefing, called by two      *)
(*                                   callers whose steps interleave        *)
(*   SpecJournal   adapters/file_journal.py, telegram_handlers.py          *)
(*                                   FileJournalStore.append and the       *)
(*                                   handlers of the recap conversation    *)
(*   SpecReadOnly  core/             one call of an operation of the core  *)
(*                                   on the lists of its caller            *)
(*                                                                         *)
(* A datetime is an integer number of seconds since midnight of day 0, a   *)
(* date is a day number, and an absent value (Python None) is the integer  *)
(* None.  In SpecTimezones each start and end says whether it is aware of  *)
(* a timezone; in the other specifications all datetimes of one input are  *)
(* of the same awareness, so that they are totally ordered, as integers    *)
(* are.                                                                    *)
(***************************************************************************)
EXTENDS Integers, Sequences, FiniteSets

None == -1

SecondsPerMinute == 60
SecondsPerHour == 3600
SecondsPerDay == 86400

\* datetime.date()
DateOf(dt) == dt \div SecondsPerDay

\* datetime.hour
HourOf(dt) == (dt % SecondsPerDay) \div SecondsPerHour

\* max(a, b) and min(a, b) of Python
Max(a, b) == IF a >= b THEN a ELSE b
Min(a, b) == IF a <= b THEN a ELSE b

Range(s) == {s[i] : i \in DOMAIN s}

(***************************************************************************)
(* Bounds and input universes                                              *)
(***************************************************************************)
MaxEvents == 2
MaxOooEvents == 3
MaxDay == 8
MaxTasks == 2

\* hh:mm:ss of day d as a datetime
At(d, h, m, s) == d * SecondsPerDay + h * SecondsPerHour + m * SecondsPerMinute + s

\* The instants at which the events of the slot finder start and end.
SlotPoints ==
    { At(0, 8, 30, 0), At(0, 9, 0, 0), At(0, 9, 20, 0),
      At(0, 9, 50, 30), At(0, 10, 20, 0), At(0, 11, 30, 0) }

\* Event (title, start, end, calendar, all_day); location and source are
\* read by no operation of the core.
Ev(t, s, e, c, a) == [title |-> t, start |-> s, end |-> e, calendar |-> c, all_day |-> a]

\* Timed events are well formed (start <= end, section 4.4 of the
\* specification); one all-day event and one open-ended event.
SlotEvents ==
    { Ev("Meeting", p[1], p[2], "Work", FALSE) :
         p \in { q \in SlotPoints \X SlotPoints : q[1] <= q[2] } }
    \cup { Ev("Holiday", At(0, 0, 0, 0), At(1, 0, 0, 0), "Work", TRUE),
           Ev("Call", At(1, 9, 20, 0), None, "Work", FALSE) }

SeqsUpTo(S, n) == UNION { [1..k -> S] : k \in 0..n }

\* (work_start, work_end) pairs: a window, an inverted one and an empty one
SlotWindows == { <<9, 11>>, <<11, 9>>, <<9, 9>> }
SlotMinDurations == { 0, 30 }
Days == { 0, 1 }

VARIABLES
    \* find_free_slots: arguments
    events, work_start, work_end, min_duration, target_date, today,
    \* find_free_slots: locals
    pc, timed_events, day_start, day_end, idx, current_time, free_slots,
    \* find_free_slots of friday/calendar.py: the list it returned
    cal_free_slots,
    \* drop_redundant_ooo: the events fetched, the argument and the locals of
    \* the latest call, what it returned, what the call before it returned,
    \* and the number of calls
    ooo_fetched, ooo_events, ooo_indices, ooo_calendars_by_date, drop, ooo_result,
    ooo_previous, ooo_calls,
    \* Task.is_urgent and Task.quadrant_label: the task, the arguments, the
    \* current date and the results
    cls_task, cls_urgent_days, cls_as_of, cls_today, cls_pc, cls_urgent,
    cls_quadrant, cls_label,
    \* filter_actionable and filter_notes: the list and what each returned;
    \* is_during_hours and is_work_hours: the arguments and the results
    cls_filtered, cls_hours,
    \* assemble_briefing: the arguments and the locals of the task pipeline
    tasks, work_task_lists, personal_task_lists, as_of, urgent_days,
    task_pc, actionable, work, personal, other,
    \* sort_by_priority: the arguments, the current date and the result
    sort_tasks, sort_as_of, sort_today, sort_pc, sort_result,
    \* find_free_slots on naive and aware datetimes: the arguments, the
    \* current date, the outcome of the call and the outcome of the call
    \* without the events that are all-day or have no end
    tz_events, tz_work_start, tz_work_end, tz_min_duration, tz_target_date, tz_today,
    tz_pc, tz_result, tz_result_timed_only,
    \* find_conflicts: the argument and the list returned
    conf_events, conf_pc, conflicts,
    \* assemble_briefing called by two callers: the system clock; per caller
    \* the arguments, the position in the function, the clock value the call
    \* read and the BriefingData returned; per frame the locals
    brf_clock, brf_args, brf_pc, brf_clock_read, brf_local, brf_result,
    \* the journal and the recap conversation of the Telegram bot: the
    \* current date; the file of each date (its lines) and the sections
    \* written to it so far; the state of the conversation and user_data;
    \* the states the conversation went through, the update handled last,
    \* the number of updates and of Evening Recap sections of the conversation
    jr_today, jr_files, jr_log, rc_state, user_data, rc_path, rc_last, rc_updates,
    rc_wrote,
    \* a call of an operation of the core: the operation, the lists of the
    \* caller and their contents before the call, the value returned
    ro_call

slotVars == << events, work_start, work_end, min_duration, target_date, today,
               pc, timed_events, day_start, day_end, idx, current_time, free_slots,
               cal_free_slots >>

oooVars == << ooo_fetched, ooo_events, ooo_indices, ooo_calendars_by_date, drop, ooo_result,
              ooo_previous, ooo_calls >>

clsVars == << cls_task, cls_urgent_days, cls_as_of, cls_today, cls_pc, cls_urgent,
              cls_quadrant, cls_label, cls_filtered, cls_hours >>

taskVars == << tasks, work_task_lists, personal_task_lists, as_of, urgent_days,
               task_pc, actionable, work, personal, other >>

sortVars == << sort_tasks, sort_as_of, sort_today, sort_pc, sort_result >>

tzVars == << tz_events, tz_work_start, tz_work_end, tz_min_duration, tz_target_date,
             tz_today, tz_pc, tz_result, tz_result_timed_only >>

confVars == << conf_events, conf_pc, conflicts >>

brfVars == << brf_clock, brf_args, brf_pc, brf_clock_read, brf_local, brf_result >>

journalVars == << jr_today, jr_files, jr_log, rc_state, user_data, rc_path, rc_last,
                  rc_updates, rc_wrote >>

vars == << slotVars, oooVars, clsVars, taskVars, sortVars, tzVars, confVars, brfVars,
          journalVars, ro_call >>

\* The variables of an operation that a specification does not exercise
SlotIdle ==
    /\ events = << >> /\ work_start = 0 /\ work_end = 0 /\ min_duration = 0
    /\ target_date = None /\ today = 0 /\ pc = "idle" /\ timed_events = << >>
    /\ day_start = 0 /\ day_end = 0 /\ idx = 1 /\ current_time = 0
    /\ free_slots = << >> /\ cal_free_slots = << >>

OooIdle ==
    /\ ooo_fetched = << >> /\ ooo_events = << >>
    /\ ooo_indices = {} /\ ooo_calendars_by_date = {}
    /\ drop = {} /\ ooo_result = << >> /\ ooo_previous = << >> /\ ooo_calls = 0

ClsIdle ==
    /\ cls_task = << >> /\ cls_urgent_days = 0 /\ cls_as_of = None /\ cls_today = 0
    /\ cls_pc = "idle" /\ cls_urgent = FALSE /\ cls_quadrant = 0 /\ cls_label = ""
    /\ cls_filtered = << >> /\ cls_hours = << >>

TaskIdle ==
    /\ tasks = << >> /\ work_task_lists = << >> /\ personal_task_lists = << >>
    /\ as_of = 0 /\ urgent_days = 0 /\ task_pc = "idle" /\ actionable = << >>
    /\ work = << >> /\ personal = << >> /\ other = << >>

SortIdle ==
    /\ sort_tasks = << >> /\ sort_as_of = None /\ sort_today = 0
    /\ sort_pc = "idle" /\ sort_result = << >>

TzIdle ==
    /\ tz_events = << >> /\ tz_work_start = 0 /\ tz_work_end = 0 /\ tz_min_duration = 0
    /\ tz_target_date = None /\ tz_today = 0 /\ tz_pc = "idle"
    /\ tz_result = << >> /\ tz_result_timed_only = << >>

ConfIdle == conf_events = << >> /\ conf_pc = "idle" /\ conflicts = << >>

BrfIdle ==
    /\ brf_clock = 0 /\ brf_args = << >> /\ brf_pc = << >> /\ brf_clock_read = << >>
    /\ brf_local = << >> /\ brf_result = << >>

JournalIdle ==
    /\ jr_today = 0 /\ jr_files = << >> /\ jr_log = << >> /\ rc_state = "idle"
    /\ user_data = << >> /\ rc_path = << >> /\ rc_last = "" /\ rc_updates = 0
    /\ rc_wrote = 0

(***************************************************************************)
(* core/calendar.py                                                        *)
(***************************************************************************)

\* TimeSlot(start, end)
TimeSlot(s, e) == [start |-> s, end |-> e]

\* int(x / 60) of a number of seconds: truncation toward zero
TruncMinutes(secs) ==
    IF secs >= 0 THEN secs \div SecondsPerMinute ELSE -((-secs) \div SecondsPerMinute)

\* TimeSlot.duration_minutes
duration_minutes(slot) == TruncMinutes(slot.end - slot.start)

\* TimeSlot.overlaps, on any two records with start and end
overlaps(a, b) == a.start < b.end /\ b.start < a.end

\* sorted(seq, key=lambda e: e.start): stable insertion into a sorted sequence
RECURSIVE InsertByStart(_, _)
InsertByStart(sorted, e) ==
    IF sorted = << >> THEN << e >>
    ELSE IF sorted[Len(sorted)].start <= e.start THEN Append(sorted, e)
    ELSE Append(InsertByStart(SubSeq(sorted, 1, Len(sorted) - 1), e), sorted[Len(sorted)])

\* (variant: the events left in the order given)
Unsorted(seq) == seq
RECURSIVE sort_events_by_start(_)
sort_events_by_start(seq) ==
    IF seq = << >> THEN << >>
    ELSE InsertByStart(sort_events_by_start(SubSeq(seq, 1, Len(seq) - 1)), seq[Len(seq)])

\* (variant: the all-day events not left out)
IsTimedOrAllDay(e) == e.end # None
\* [e for e in events if not e.all_day and e.end is not None]
IsTimed(e) == ~e.all_day /\ e.end # None
TimedOf(seq) == SelectSeq(seq, IsTimed)

\* the target date of find_free_slots
TargetDate(evs, td, now) ==
    IF td # None THEN td
    ELSE IF evs # << >> THEN DateOf(evs[1].start)
    ELSE now

\* datetime.combine(d, time(hour, 0), tzinfo=tz)
Combine(d, hour) == d * SecondsPerDay + hour * SecondsPerHour

SlotInit ==
    /\ events \in SeqsUpTo(SlotEvents, MaxEvents)
    /\ \E w \in SlotWindows : work_start = w[1] /\ work_end = w[2]
    /\ min_duration \in SlotMinDurations
    /\ target_date \in { None, 0 }
    /\ today \in (IF events = << >> /\ target_date = None THEN Days ELSE { 0 })
    /\ pc = "start"
    /\ timed_events = << >>
    /\ day_start = 0
    /\ day_end = 0
    /\ idx = 1
    /\ current_time = 0
    /\ free_slots = << >>
    /\ cal_free_slots = << >>
    /\ OooIdle /\ ClsIdle /\ TaskIdle /\ SortIdle /\ TzIdle /\ ConfIdle /\ BrfIdle /\ JournalIdle /\ ro_call = [pc |-> "idle"]

\* find_free_slots, up to the loop
FfsSetup ==
    /\ pc = "start"
    /\ LET d == TargetDate(events, target_date, today) IN
        /\ timed_events' = sort_events_by_start(TimedOf(events))
        /\ day_start' = Combine(d, work_start)
        /\ day_end' = Combine(d, work_end)
        /\ current_time' = Combine(d, work_start)
    /\ free_slots' = << >>
    /\ idx' = 1
    /\ pc' = "loop"
    /\ UNCHANGED << events, work_start, work_end, min_duration, target_date, today,
                    cal_free_slots >>
    /\ UNCHANGED << oooVars, clsVars, taskVars, sortVars, tzVars, confVars, brfVars, journalVars, ro_call >>

\* (variant: the gap appended whatever its length)
WithGapAnyLength(slots, from, to, min) == Append(slots, TimeSlot(from, to))
\* The slots after the gap [from, to) is offered
WithGap(slots, from, to, min) ==
    IF duration_minutes(TimeSlot(from, to)) >= min
    THEN Append(slots, TimeSlot(from, to))
    ELSE slots

\* (variant: only the events that end before the work hours are skipped)
OutsideHoursBeforeOnly(e, ds, de) ==
    LET event_end == IF e.end # None THEN e.end ELSE e.start IN
    event_end <= ds
\* Whether the loop skips the event (it lies outside the work hours)
OutsideHours(e, ds, de) ==
    LET event_end == IF e.end # None THEN e.end ELSE e.start IN
    event_end <= ds \/ e.start >= de

\* (variant: current_time = event_end, which can move the cursor backward)
AdvanceNoMax(current, event_end) == event_end
\* current_time = max(current_time, event_end)
Advance(current, event_end) == Max(current, event_end)

\* (variant: a gap is offered when event_start >= current_time)
FfsEventGapNotStrict ==
    /\ pc = "loop"
    /\ idx <= Len(timed_events)
    /\ LET event == timed_events[idx]
           raw_end == IF event.end # None THEN event.end ELSE event.start
           event_start == Max(event.start, day_start)
           event_end == Min(raw_end, day_end)
       IN IF OutsideHours(event, day_start, day_end)
          THEN UNCHANGED << free_slots, current_time >>
          ELSE /\ free_slots' =
                    IF event_start >= current_time
                    THEN WithGap(free_slots, current_time, event_start, min_duration)
                    ELSE free_slots
               /\ current_time' = Advance(current_time, event_end)
    /\ idx' = idx + 1
    /\ UNCHANGED << events, work_start, work_end, min_duration, target_date, today,
                    pc, timed_events, day_start, day_end, cal_free_slots >>
    /\ UNCHANGED << oooVars, clsVars, taskVars, sortVars, tzVars, confVars, brfVars, journalVars, ro_call >>
\* One iteration of `for event in timed_events`
FfsEvent ==
    /\ pc = "loop"
    /\ idx <= Len(timed_events)
    /\ LET event == timed_events[idx]
           raw_end == IF event.end # None THEN event.end ELSE event.start
           event_start == Max(event.start, day_start)
           event_end == Min(raw_end, day_end)
       IN IF OutsideHours(event, day_start, day_end)
          THEN UNCHANGED << free_slots, current_time >>
          ELSE /\ free_slots' =
                    IF event_start > current_time
                    THEN WithGap(free_slots, current_time, event_start, min_duration)
                    ELSE free_slots
               /\ current_time' = Advance(current_time, event_end)
    /\ idx' = idx + 1
    /\ UNCHANGED << events, work_start, work_end, min_duration, target_date, today,
                    pc, timed_events, day_start, day_end, cal_free_slots >>
    /\ UNCHANGED << oooVars, clsVars, taskVars, sortVars, tzVars, confVars, brfVars, journalVars, ro_call >>

\* After the loop: the gap after the last event, and the return
FfsReturn ==
    /\ pc = "loop"
    /\ idx > Len(timed_events)
    /\ free_slots' =
          IF current_time < day_end
          THEN WithGap(free_slots, current_time, day_end, min_duration)
          ELSE free_slots
    /\ pc' = "done"
    /\ UNCHANGED << events, work_start, work_end, min_duration, target_date, today,
                    timed_events, day_start, day_end, idx, current_time, cal_free_slots >>
    /\ UNCHANGED << oooVars, clsVars, taskVars, sortVars, tzVars, confVars, brfVars, journalVars, ro_call >>

\* free_slots and current_time after the first k iterations of
\* `for event in timed_events`
RECURSIVE WalkEvents(_, _, _, _, _)
WalkEvents(timed, k, ds, de, min) ==
    IF k = 0 THEN [slots |-> << >>, current |-> ds]
    ELSE LET before == WalkEvents(timed, k - 1, ds, de, min)
             event == timed[k]
             raw_end == IF event.end # None THEN event.end ELSE event.start
             event_start == Max(event.start, ds)
             event_end == Min(raw_end, de)
         IN IF OutsideHours(event, ds, de) THEN before
            ELSE [slots |-> IF event_start > before.current
                            THEN WithGap(before.slots, before.current, event_start, min)
                            ELSE before.slots,
                  current |-> Advance(before.current, event_end)]

\* find_free_slots(events, work_start, work_end, min_duration, target_date),
\* from the call to the return, called when the current date is now
find_free_slots(evs, ws, we, min, td, now) ==
    LET d == TargetDate(evs, td, now)
        timed == sort_events_by_start(TimedOf(evs))
        ds == Combine(d, ws)
        de == Combine(d, we)
        walked == WalkEvents(timed, Len(timed), ds, de, min)
    IN IF walked.current < de
       THEN WithGap(walked.slots, walked.current, de, min)
       ELSE walked.slots

\* (variant: the end hour inside)
is_during_hours_closed(dt, start_hour, end_hour) ==
    start_hour <= HourOf(dt) /\ HourOf(dt) <= end_hour
\* is_during_hours(dt, start_hour, end_hour)
is_during_hours(dt, start_hour, end_hour) ==
    start_hour <= HourOf(dt) /\ HourOf(dt) < end_hour

(***************************************************************************)
(* friday/calendar.py: the find_free_slots the workflows and the CLI call  *)
(***************************************************************************)

\* find_free_slots(events, work_start, work_end, min_duration) of
\* friday/calendar.py: an empty list returns at once; the date is the one of
\* the first event; the loop over the timed events and the gap after the
\* last one are, statement for statement, those of the core
cal_find_free_slots(evs, ws, we, min) ==
    IF evs = << >> THEN << >>
    ELSE LET d == DateOf(evs[1].start)
             timed == sort_events_by_start(TimedOf(evs))
             ds == Combine(d, ws)
             de == Combine(d, we)
             walked == WalkEvents(timed, Len(timed), ds, de, min)
         IN IF walked.current < de
            THEN WithGap(walked.slots, walked.current, de, min)
            ELSE walked.slots

\* cal.find_free_slots(events, work_start, work_end, min_duration), called
\* with the arguments the core was called with
CalFindFreeSlots ==
    /\ pc = "done"
    /\ cal_free_slots' = cal_find_free_slots(events, work_start, work_end, min_duration)
    /\ pc' = "compared"
    /\ UNCHANGED << events, work_start, work_end, min_duration, target_date, today,
                    timed_events, day_start, day_end, idx, current_time, free_slots >>
    /\ UNCHANGED << oooVars, clsVars, taskVars, sortVars, tzVars, confVars, brfVars, journalVars, ro_call >>

SlotNext == FfsSetup \/ FfsEvent \/ FfsReturn \/ CalFindFreeSlots

SpecSlots == SlotInit /\ [][SlotNext]_vars

(***************************************************************************)
(* core/calendar.py: find_free_slots on naive and aware datetimes          *)
(***************************************************************************)

\* An event whose start and end say whether they are aware of a timezone
\* (tzinfo is not None); an end that is None is not aware
AwareEv(t, s, e, a, sa, ea) ==
    [title |-> t, start |-> s, end |-> e, calendar |-> "Work", all_day |-> a,
     start_aware |-> sa, end_aware |-> ea]

\* sorted(..., key=lambda e: e.start) raises TypeError when it compares a
\* naive start with an aware one, which it does when the list holds both
SortRaises(timed) ==
    \E i, j \in 1..Len(timed) : timed[i].start_aware # timed[j].start_aware

\* tz: the awareness of day_start and day_end
BoundaryAware(evs, timed) ==
    IF timed # << >> THEN timed[1].start_aware
    ELSE IF evs # << >> THEN evs[1].start_aware
    ELSE FALSE

\* The loop raises TypeError when it compares an end or a start with a
\* boundary of the other awareness
LoopRaises(timed, tz) ==
    \E i \in 1..Len(timed) : timed[i].end_aware # tz \/ timed[i].start_aware # tz

\* The outcome of a call that raised TypeError
TypeError == [raised |-> TRUE, slots |-> << >>, aware |-> FALSE]

\* The outcome of find_free_slots(events, work_start, work_end,
\* min_duration, target_date): TypeError, or the slots returned and their
\* awareness
find_free_slots_outcome(evs, ws, we, min, td, now) ==
    LET timed == TimedOf(evs) IN
    IF SortRaises(timed) THEN TypeError
    ELSE LET tz == BoundaryAware(evs, sort_events_by_start(timed)) IN
         IF LoopRaises(timed, tz) THEN TypeError
         ELSE [raised |-> FALSE,
               slots |-> find_free_slots(evs, ws, we, min, td, now),
               aware |-> tz]

MaxTzEvents == 2

\* Two timed events, start and end each naive or aware; an all-day event
\* and an open-ended event of the next day, naive or aware
TzEvents ==
    { AwareEv("Meeting", At(0, 9, 0, 0), At(0, 9, 50, 0), FALSE, sa, ea) :
        sa \in BOOLEAN, ea \in BOOLEAN }
    \cup { AwareEv("Review", At(0, 10, 0, 0), At(0, 10, 20, 0), FALSE, sa, ea) :
             sa \in BOOLEAN, ea \in BOOLEAN }
    \cup { AwareEv("Holiday", At(0, 0, 0, 0), At(1, 0, 0, 0), TRUE, sa, sa) : sa \in BOOLEAN }
    \cup { AwareEv("Call", At(1, 9, 20, 0), None, FALSE, sa, FALSE) : sa \in BOOLEAN }

\* (work_start, work_end) pairs: a window, and an empty one
TzWindows == { <<9, 11>>, <<9, 9>> }

TzInit ==
    /\ tz_events \in SeqsUpTo(TzEvents, MaxTzEvents)
    /\ \E w \in TzWindows : tz_work_start = w[1] /\ tz_work_end = w[2]
    /\ tz_min_duration \in SlotMinDurations
    /\ tz_target_date \in { None, 0 }
    /\ tz_today = 0
    /\ tz_pc = "start"
    /\ tz_result = << >>
    /\ tz_result_timed_only = << >>
    /\ SlotIdle /\ OooIdle /\ ClsIdle /\ TaskIdle /\ SortIdle /\ ConfIdle /\ BrfIdle /\ JournalIdle /\ ro_call = [pc |-> "idle"]

\* find_free_slots(events, ...)
FfsCall ==
    /\ tz_pc = "start"
    /\ tz_result' = find_free_slots_outcome(tz_events, tz_work_start, tz_work_end,
                                            tz_min_duration, tz_target_date, tz_today)
    /\ tz_pc' = "called"
    /\ UNCHANGED << tz_events, tz_work_start, tz_work_end, tz_min_duration, tz_target_date,
                    tz_today, tz_result_timed_only >>
    /\ UNCHANGED << slotVars, oooVars, clsVars, taskVars, sortVars, confVars, brfVars, journalVars, ro_call >>

\* find_free_slots([e for e in events if not e.all_day and e.end], ...): the
\* call of a caller that removes the events with no clock times first
FfsCallTimedOnly ==
    /\ tz_pc = "called"
    /\ tz_result_timed_only' =
          find_free_slots_outcome(SelectSeq(tz_events, LAMBDA e : ~e.all_day /\ e.end # None),
                                  tz_work_start, tz_work_end, tz_min_duration,
                                  tz_target_date, tz_today)
    /\ tz_pc' = "done"
    /\ UNCHANGED << tz_events, tz_work_start, tz_work_end, tz_min_duration, tz_target_date,
                    tz_today, tz_result >>
    /\ UNCHANGED << slotVars, oooVars, clsVars, taskVars, sortVars, confVars, brfVars, journalVars, ro_call >>

TzNext == FfsCall \/ FfsCallTimedOnly

SpecTimezones == TzInit /\ [][TzNext]_vars

(***************************************************************************)
(* core/calendar.py: find_conflicts                                        *)
(***************************************************************************)

\* `for e2 in sorted_events[i + 1:]`, from position k on, for the event e1
\* at position i: the list conflicts at the end of the loop
RECURSIVE ScanForward(_, _, _, _)
ScanForward(sorted, i, k, acc) ==
    IF k > Len(sorted) THEN acc
    ELSE LET e1 == sorted[i]
             e2 == sorted[k]
         IN IF e2.all_day \/ e2.end = None THEN ScanForward(sorted, i, k + 1, acc)
            ELSE IF e2.start >= e1.end THEN acc
            ELSE ScanForward(sorted, i, k + 1, Append(acc, << e1, e2 >>))

\* `for i, e1 in enumerate(sorted_events)`, from position i on
RECURSIVE ConflictsFrom(_, _, _)
ConflictsFrom(sorted, i, acc) ==
    IF i > Len(sorted) THEN acc
    ELSE IF sorted[i].all_day \/ sorted[i].end = None
         THEN ConflictsFrom(sorted, i + 1, acc)
         ELSE ConflictsFrom(sorted, i + 1, ScanForward(sorted, i, i + 1, acc))

\* find_conflicts(events)
find_conflicts(evs) == ConflictsFrom(sort_events_by_start(evs), 1, << >>)

MaxConfEvents == 3

ConfPoints == { At(0, 9, 0, 0), At(0, 9, 30, 0), At(0, 10, 0, 0), At(0, 11, 0, 0) }

\* Timed events with start <= end, an all-day event and an open-ended one
ConfEvents ==
    { Ev("Meeting", q[1], q[2], "Work", FALSE) :
        q \in { r \in ConfPoints \X ConfPoints : r[1] <= r[2] } }
    \cup { Ev("Holiday", At(0, 0, 0, 0), At(1, 0, 0, 0), "Work", TRUE),
           Ev("Call", At(0, 9, 15, 0), None, "Work", FALSE) }

ConfInit ==
    /\ conf_events \in SeqsUpTo(ConfEvents, MaxConfEvents)
    /\ conf_pc = "start"
    /\ conflicts = << >>
    /\ SlotIdle /\ OooIdle /\ ClsIdle /\ TaskIdle /\ SortIdle /\ TzIdle /\ BrfIdle /\ JournalIdle /\ ro_call = [pc |-> "idle"]

\* find_conflicts(events)
FindConflicts ==
    /\ conf_pc = "start"
    /\ conflicts' = find_conflicts(conf_events)
    /\ conf_pc' = "done"
    /\ UNCHANGED conf_events
    /\ UNCHANGED << slotVars, oooVars, clsVars, taskVars, sortVars, tzVars, brfVars, journalVars, ro_call >>

ConfNext == FindConflicts

SpecConflicts == ConfInit /\ [][ConfNext]_vars

(***************************************************************************)
(* core/calendar.py: drop_redundant_ooo                                    *)
(***************************************************************************)

\* A title is the sequence of its characters.
UpperCase == << "A", "B", "C", "D", "E", "F", "G", "H", "I", "J", "K", "L", "M",
                "N", "O", "P", "Q", "R", "S", "T", "U", "V", "W", "X", "Y", "Z" >>
LowerCase == << "a", "b", "c", "d", "e", "f", "g", "h", "i", "j", "k", "l", "m",
                "n", "o", "p", "q", "r", "s", "t", "u", "v", "w", "x", "y", "z" >>
Digits == { "0", "1", "2", "3", "4", "5", "6", "7", "8", "9" }

\* re.IGNORECASE: a character compared by its lower case
LowerOf ==
    [c \in Range(UpperCase) |-> LowerCase[CHOOSE i \in DOMAIN UpperCase : UpperCase[i] = c]]
Lower(c) == IF c \in DOMAIN LowerOf THEN LowerOf[c] ELSE c

LowerAll(str) == [i \in DOMAIN str |-> Lower(str[i])]

\* \w of a regular expression
WordChars == Range(UpperCase) \cup Range(LowerCase) \cup Digits \cup { "_" }
IsWordChar(c) == c \in WordChars

\* The alternatives of _OOO_PATTERN, ^(ooo|out of office)\b
OooAlternatives ==
    { << "o", "o", "o" >>,
      << "o", "u", "t", " ", "o", "f", " ", "o", "f", "f", "i", "c", "e" >> }

\* (variant: the pattern without its \b)
OooPatternNoBoundary(title) ==
    \E alt \in OooAlternatives :
        /\ Len(title) >= Len(alt)
        /\ LowerAll(SubSeq(title, 1, Len(alt))) = alt
\* _OOO_PATTERN.search(title): an alternative at the start of the title,
\* followed by a word boundary
OooPatternSearch(title) ==
    \E alt \in OooAlternatives :
        /\ Len(title) >= Len(alt)
        /\ LowerAll(SubSeq(title, 1, Len(alt))) = alt
        /\ Len(title) = Len(alt) \/ ~IsWordChar(title[Len(alt) + 1])

\* ooo_indices
OooIndices(evs) == { i \in 1..Len(evs) : OooPatternSearch(evs[i].title) }

\* Rule 2: the (calendar, date) pairs with an all-day OOO
OooCalendarsByDate(evs, indices) ==
    { << evs[i].calendar, DateOf(evs[i].start) >> :
        i \in { k \in indices : evs[k].all_day } }

\* (variant: a missing end not replaced by the start)
OverlapsNoFallback(a, b) == a.start < b.end /\ b.start < a.end
\* _overlaps(a, b)
Overlaps(a, b) ==
    LET a_end == IF a.end # None THEN a.end ELSE a.start
        b_end == IF b.end # None THEN b.end ELSE b.start
    IN a.start < b_end /\ b.start < a_end

\* (variant: the calendars not compared)
Rule1AnyCalendar(evs, i) ==
    \E j \in 1..Len(evs) : j # i /\ Overlaps(evs[i], evs[j])
\* Rule 1, for the OOO event at index i: whether the inner loop reaches
\* drop.add(i)
Rule1(evs, i) ==
    \E j \in 1..Len(evs) :
        j # i /\ evs[j].calendar # evs[i].calendar /\ Overlaps(evs[i], evs[j])

\* (variant: rule 2 evaluated after rule 1, against the all-day OOO events
\* that rule 1 keeps)
Rule2NotDroppedOoo(evs, i, pairs) ==
    \E k \in 1..Len(evs) :
        /\ evs[k].all_day /\ << evs[k].calendar, DateOf(evs[k].start) >> \in pairs
        /\ ~Rule1(evs, k)
        /\ evs[k].calendar = evs[i].calendar
        /\ DateOf(evs[k].start) = DateOf(evs[i].start)
\* Rule 2, for the event at index i that is no OOO event
Rule2(evs, i, pairs) == << evs[i].calendar, DateOf(evs[i].start) >> \in pairs

\* The set drop at the end of the loop over the events
DropSet(evs, indices, pairs) ==
    { i \in 1..Len(evs) :
        IF i \in indices THEN Rule1(evs, i) ELSE Rule2(evs, i, pairs) }

\* (variant: the filter inverted)
RECURSIVE KeptInverted(_, _)
KeptInverted(evs, dropped) ==
    IF evs = << >> THEN << >>
    ELSE LET rest == KeptInverted(SubSeq(evs, 1, Len(evs) - 1), dropped) IN
         IF Len(evs) \in dropped THEN Append(rest, evs[Len(evs)]) ELSE rest
\* (variant: the surviving events collected latest first)
RECURSIVE KeptLatestFirst(_, _)
KeptLatestFirst(evs, dropped) ==
    IF evs = << >> THEN << >>
    ELSE LET rest == KeptLatestFirst(SubSeq(evs, 1, Len(evs) - 1), dropped) IN
         IF Len(evs) \in dropped THEN rest ELSE << evs[Len(evs)] >> \o rest
\* [e for i, e in enumerate(events) if i not in drop]
RECURSIVE Kept(_, _)
Kept(evs, dropped) ==
    IF evs = << >> THEN << >>
    ELSE LET rest == Kept(SubSeq(evs, 1, Len(evs) - 1), dropped) IN
         IF Len(evs) \in dropped THEN rest ELSE Append(rest, evs[Len(evs)])

\* The titles of the events
TitleOOO == << "O", "O", "O" >>
TitleStandup == << "S", "t", "a", "n", "d", "u", "p" >>
TitleOoops == << "O", "o", "o", "p", "s" >>
TitleOutOfOffice ==
    << "O", "u", "t", " ", "o", "f", " ", "O", "f", "f", "i", "c", "e", ":", "x" >>

OooCalendars == { "Work", "Personal" }

OooUniverse ==
    \* all-day events of day 0, with and without an end
    { Ev(t, At(0, 0, 0, 0), At(1, 0, 0, 0), c, TRUE) :
        t \in { TitleOOO, TitleStandup }, c \in OooCalendars }
    \cup { Ev(t, At(0, 0, 0, 0), None, "Work", TRUE) : t \in { TitleOOO, TitleStandup } }
    \* 09:00-10:00 and 10:00-11:00 of day 0
    \cup { Ev(t, At(0, 9, 0, 0), At(0, 10, 0, 0), c, FALSE) :
             t \in { TitleOOO, TitleStandup, TitleOoops, TitleOutOfOffice },
             c \in OooCalendars }
    \cup { Ev(t, At(0, 10, 0, 0), At(0, 11, 0, 0), c, FALSE) :
             t \in { TitleOOO, TitleStandup }, c \in OooCalendars }
    \* an open-ended event at 09:30 of day 0
    \cup { Ev(t, At(0, 9, 30, 0), None, c, FALSE) :
             t \in { TitleOOO, TitleStandup }, c \in OooCalendars }
    \* 09:00-10:00 of day 1
    \cup { Ev(t, At(1, 9, 0, 0), At(1, 10, 0, 0), "Work", FALSE) :
             t \in { TitleOOO, TitleStandup } }

OooInit ==
    /\ ooo_fetched \in SeqsUpTo(OooUniverse, MaxOooEvents)
    /\ ooo_events = ooo_fetched
    /\ ooo_indices = {}
    /\ ooo_calendars_by_date = {}
    /\ drop = {}
    /\ ooo_result = << >>
    /\ ooo_previous = << >>
    /\ ooo_calls = 0
    /\ SlotIdle /\ ClsIdle /\ TaskIdle /\ SortIdle /\ TzIdle /\ ConfIdle /\ BrfIdle /\ JournalIdle /\ ro_call = [pc |-> "idle"]

\* drop_redundant_ooo(evs), from the call to the return
DropRedundantOoo(evs) ==
    LET indices == OooIndices(evs)
        pairs == OooCalendarsByDate(evs, indices)
        dropped == DropSet(evs, indices, pairs)
    IN /\ UNCHANGED ooo_fetched
       /\ ooo_events' = evs
       /\ ooo_indices' = indices
       /\ IF indices = {}
          THEN \* the early return of the argument
               /\ ooo_calendars_by_date' = {}
               /\ drop' = {}
               /\ ooo_result' = evs
          ELSE /\ ooo_calendars_by_date' = pairs
               /\ drop' = dropped
               /\ ooo_result' = Kept(evs, dropped)
       /\ ooo_previous' = ooo_result
       /\ ooo_calls' = ooo_calls + 1

\* The first call, on the events fetched
OooCall ==
    /\ ooo_calls = 0
    /\ DropRedundantOoo(ooo_events)
    /\ UNCHANGED << slotVars, clsVars, taskVars, sortVars, tzVars, confVars, brfVars, journalVars, ro_call >>

\* A second call, on what the first returned
OooCallAgain ==
    /\ ooo_calls = 1
    /\ DropRedundantOoo(ooo_result)
    /\ UNCHANGED << slotVars, clsVars, taskVars, sortVars, tzVars, confVars, brfVars, journalVars, ro_call >>

OooNext == OooCall \/ OooCallAgain

SpecOoo == OooInit /\ [][OooNext]_vars

(***************************************************************************)
(* core/tasks.py                                                           *)
(***************************************************************************)

\* Task (id, priority, due_date, project_name, kind); a date is a day
\* number; title and project_id are read by no operation of the core.
Task(id, prio, due, project, kind) ==
    [id |-> id, priority |-> prio, due_date |-> due, project_name |-> project,
     kind |-> kind]

\* Task.is_note
is_note(t) == t.kind = "NOTE"

\* Task.is_important
is_important(t) == t.priority >= 3

\* as_of = as_of or date.today()
AsOfOrToday(ref, now) == IF ref # None THEN ref ELSE now

\* (variant: < in place of <=)
is_urgent_before(t, days, ref, now) ==
    IF t.due_date = None THEN FALSE
    ELSE t.due_date - AsOfOrToday(ref, now) < days
\* Task.is_urgent(urgent_days, as_of), called when the current date is now
is_urgent(t, days, ref, now) ==
    IF t.due_date = None THEN FALSE
    ELSE t.due_date - AsOfOrToday(ref, now) <= days

\* (variant: the results 2 and 3 exchanged)
quadrant_swapped(t, days, ref, now) ==
    LET important == is_important(t)
        urgent == is_urgent(t, days, ref, now)
    IN IF urgent /\ important THEN 1
       ELSE IF ~urgent /\ important THEN 3
       ELSE IF urgent /\ ~important THEN 2
       ELSE 4
\* Task.quadrant(urgent_days, as_of)
quadrant(t, days, ref, now) ==
    LET important == is_important(t)
        urgent == is_urgent(t, days, ref, now)
    IN IF urgent /\ important THEN 1
       ELSE IF ~urgent /\ important THEN 2
       ELSE IF urgent /\ ~important THEN 3
       ELSE 4

\* labels = {1: "Do", 2: "Schedule", 3: "Delegate", 4: "Delete"}: the value
\* of key k is labels[k]
labels == << "Do", "Schedule", "Delegate", "Delete" >>

\* Task.quadrant_label(urgent_days, as_of); a key the dictionary lacks raises
\* KeyError
quadrant_label(t, days, ref, now) ==
    LET q == quadrant(t, days, ref, now) IN
    IF q \in DOMAIN labels THEN labels[q] ELSE "KeyError"

\* (variant: every important task kept, urgent or not)
filter_actionable_important(ts, days, ref, now) ==
    LET when == AsOfOrToday(ref, now)
        keep(t) == /\ ~is_note(t)
                   /\ is_urgent(t, days, when, now) \/ is_important(t)
    IN SelectSeq(ts, keep)
\* filter_actionable(tasks, urgent_days, as_of)
filter_actionable(ts, days, ref, now) ==
    LET when == AsOfOrToday(ref, now)
        keep(t) == /\ ~is_note(t)
                   /\ is_urgent(t, days, when, now) \/ quadrant(t, days, when, now) = 1
    IN SelectSeq(ts, keep)

\* (variant: the tasks of every kind kept)
filter_notes_any_kind(ts, days, ref, now) ==
    LET when == AsOfOrToday(ref, now)
        keep(t) == t.due_date # None /\ t.due_date - when <= days
    IN SelectSeq(ts, keep)
\* filter_notes(tasks, urgent_days, as_of), called when the current date is
\* now; a date is never falsy
filter_notes(ts, days, ref, now) ==
    LET when == AsOfOrToday(ref, now)
        keep(t) == is_note(t) /\ t.due_date # None /\ t.due_date - when <= days
    IN SelectSeq(ts, keep)

\* x in list
InList(x, list) == \E i \in DOMAIN list : list[i] = x

\* categorize_tasks(tasks, work_lists, personal_lists): the three lists
CategorizeWork(ts, work_lists, personal_lists) ==
    LET in_work(t) == InList(t.project_name, work_lists) IN SelectSeq(ts, in_work)

CategorizePersonal(ts, work_lists, personal_lists) ==
    LET in_personal(t) == InList(t.project_name, personal_lists) IN SelectSeq(ts, in_personal)

CategorizeOther(ts, work_lists, personal_lists) ==
    LET in_neither(t) == /\ ~InList(t.project_name, work_lists)
                         /\ ~InList(t.project_name, personal_lists)
    IN SelectSeq(ts, in_neither)

\* Task.days_until_due(as_of) of a task that has a due date
days_until_due(t, ref, now) == t.due_date - AsOfOrToday(ref, now)

\* The number sort_key uses for a task with no due date
NoDueDateDays == 9999

\* (variant: ascending priority)
sort_key_ascending(t, when) ==
    << t.priority,
       IF t.due_date # None THEN days_until_due(t, when, when) ELSE NoDueDateDays >>
\* sort_key(t) of sort_by_priority, as_of being when
sort_key(t, when) ==
    << -t.priority,
       IF t.due_date # None THEN days_until_due(t, when, when) ELSE NoDueDateDays >>

\* a < b of two tuples of two integers
TupleLess(a, b) == a[1] < b[1] \/ (a[1] = b[1] /\ a[2] < b[2])

\* (variant: the task inserted before the tasks of equal key)
RECURSIVE InsertByKeyBeforeEqual(_, _, _)
InsertByKeyBeforeEqual(sorted, t, when) ==
    IF sorted = << >> THEN << t >>
    ELSE IF TupleLess(sort_key(sorted[Len(sorted)], when), sort_key(t, when))
         THEN Append(sorted, t)
         ELSE Append(InsertByKeyBeforeEqual(SubSeq(sorted, 1, Len(sorted) - 1), t, when),
                     sorted[Len(sorted)])
\* sorted(tasks, key=sort_key): stable insertion into a sorted sequence
RECURSIVE InsertByKey(_, _, _)
InsertByKey(sorted, t, when) ==
    IF sorted = << >> THEN << t >>
    ELSE IF ~TupleLess(sort_key(t, when), sort_key(sorted[Len(sorted)], when))
         THEN Append(sorted, t)
         ELSE Append(InsertByKey(SubSeq(sorted, 1, Len(sorted) - 1), t, when),
                     sorted[Len(sorted)])

RECURSIVE SortedByKey(_, _)
SortedByKey(ts, when) ==
    IF ts = << >> THEN << >>
    ELSE InsertByKey(SortedByKey(SubSeq(ts, 1, Len(ts) - 1), when), ts[Len(ts)], when)

\* sort_by_priority(tasks, as_of), called when the current date is now
sort_by_priority(ts, ref, now) == SortedByKey(ts, AsOfOrToday(ref, now))

(***************************************************************************)
(* core/briefing.py                                                        *)
(***************************************************************************)

\* (variant: the clock read whatever as_of is)
NowOnly(ref, now) == now
\* as_of = as_of or datetime.now()
AsOfOrNow(ref, now) == IF ref # None THEN ref ELSE now

\* date.strftime("%A"); day 0 is a Monday
DayNames == << "Monday", "Tuesday", "Wednesday", "Thursday", "Friday", "Saturday", "Sunday" >>
DayOfWeek(d) == DayNames[(d % 7) + 1]

\* f"{n:02d}" of an hour
DigitChars == << "0", "1", "2", "3", "4", "5", "6", "7", "8", "9" >>
TwoDigits(n) ==
    IF n < 10 THEN << "0", DigitChars[n + 1] >>
    ELSE << DigitChars[(n \div 10) + 1], DigitChars[(n % 10) + 1] >>

\* f"{work_start:02d}:00-{work_end:02d}:00"
WorkHoursStr(ws, we) ==
    TwoDigits(ws) \o << ":", "0", "0", "-" >> \o TwoDigits(we) \o << ":", "0", "0" >>

\* min_duration of the call of find_free_slots in assemble_briefing
BriefingMinDuration == 30

\* BriefingData(...)
BriefingData(d, wt, pt, ot, evs, slots, in_hours, hours_str) ==
    [date |-> d, day_of_week |-> DayOfWeek(d), work_tasks |-> wt, personal_tasks |-> pt,
     other_tasks |-> ot, events |-> evs, free_slots |-> slots,
     is_work_hours |-> in_hours, work_hours_str |-> hours_str]

\* assemble_briefing(tasks, events, work_task_lists, personal_task_lists,
\* work_start, work_end, as_of, urgent_days), from the call to the return,
\* called when the system clock shows now
assemble_briefing(a, now) ==
    LET when == AsOfOrNow(a.as_of, now)
        tday == DateOf(when)
        act == filter_actionable(a.tasks, a.urgent_days, tday, tday)
        wt == CategorizeWork(act, a.work_task_lists, a.personal_task_lists)
        pt == CategorizePersonal(act, a.work_task_lists, a.personal_task_lists)
        ot == CategorizeOther(act, a.work_task_lists, a.personal_task_lists)
    IN BriefingData(tday,
                    sort_by_priority(wt, tday, tday),
                    sort_by_priority(pt, tday, tday),
                    sort_by_priority(ot, tday, tday),
                    a.events,
                    find_free_slots(a.events, a.work_start, a.work_end,
                                    BriefingMinDuration, tday, tday),
                    a.work_start <= HourOf(when) /\ HourOf(when) < a.work_end,
                    WorkHoursStr(a.work_start, a.work_end))

(***************************************************************************)
(* The functions of one task and of one datetime, each called once         *)
(***************************************************************************)
ClsDays == 0..MaxDay
ClsPriorities == 0..5

ClsInit ==
    /\ cls_task \in { Task(1, p, d, "Eng", k) :
                        p \in ClsPriorities, d \in ClsDays \cup { None },
                        k \in { "TEXT", "NOTE", "CHECKLIST" } }
    /\ cls_urgent_days \in { -1, 0, 3 }
    /\ cls_as_of \in { None, 2, 4 }
    /\ cls_today = 3
    /\ cls_pc = "start"
    /\ cls_urgent = FALSE
    /\ cls_quadrant = 0
    /\ cls_label = ""
    /\ cls_filtered = << >>
    /\ cls_hours = << >>
    /\ SlotIdle /\ OooIdle /\ TaskIdle /\ SortIdle /\ TzIdle /\ ConfIdle /\ BrfIdle /\ JournalIdle /\ ro_call = [pc |-> "idle"]

\* task.is_urgent(urgent_days, as_of)
IsUrgentCall ==
    /\ cls_pc = "start"
    /\ cls_urgent' = is_urgent(cls_task, cls_urgent_days, cls_as_of, cls_today)
    /\ cls_pc' = "done"
    /\ UNCHANGED << cls_task, cls_urgent_days, cls_as_of, cls_today, cls_quadrant, cls_label,
                    cls_filtered, cls_hours >>
    /\ UNCHANGED << slotVars, oooVars, taskVars, sortVars, tzVars, confVars, brfVars, journalVars, ro_call >>

\* task.quadrant_label(urgent_days, as_of), with the quadrant it looks up
QuadrantLabelCall ==
    /\ cls_pc = "start"
    /\ cls_quadrant' = quadrant(cls_task, cls_urgent_days, cls_as_of, cls_today)
    /\ cls_label' = quadrant_label(cls_task, cls_urgent_days, cls_as_of, cls_today)
    /\ cls_pc' = "labelled"
    /\ UNCHANGED << cls_task, cls_urgent_days, cls_as_of, cls_today, cls_urgent,
                    cls_filtered, cls_hours >>
    /\ UNCHANGED << slotVars, oooVars, taskVars, sortVars, tzVars, confVars, brfVars, journalVars, ro_call >>

\* filter_actionable(tasks, urgent_days, as_of) and filter_notes(tasks,
\* urgent_days, as_of) on the list of the task and a task like it of any kind
FilterCalls ==
    /\ cls_pc = "start"
    /\ \E k \in { "TEXT", "NOTE", "CHECKLIST" } :
          LET ts == << cls_task,
                       Task(2, cls_task.priority, cls_task.due_date, "Eng", k) >>
          IN cls_filtered' =
                [tasks |-> ts,
                 actionable |-> filter_actionable(ts, cls_urgent_days, cls_as_of, cls_today),
                 notes |-> filter_notes(ts, cls_urgent_days, cls_as_of, cls_today)]
    /\ cls_pc' = "filtered"
    /\ UNCHANGED << cls_task, cls_urgent_days, cls_as_of, cls_today, cls_urgent,
                    cls_quadrant, cls_label, cls_hours >>
    /\ UNCHANGED << slotVars, oooVars, taskVars, sortVars, tzVars, confVars, brfVars, journalVars, ro_call >>

\* is_during_hours(dt, start_hour, end_hour), and is_work_hours of
\* assemble_briefing(..., work_start, work_end, as_of) for the same hours,
\* as_of being dt, or absent when the system clock shows dt
IsDuringHoursCall ==
    /\ cls_pc = "start"
    /\ \E h \in { 8, 9, 16, 17 }, mi \in { 0, 59 },
          w \in { << 9, 17 >>, << 17, 9 >>, << 9, 9 >> }, given \in BOOLEAN :
          LET dt == At(cls_today, h, mi, 0)
              a == [tasks |-> << >>, events |-> << >>, work_task_lists |-> << >>,
                    personal_task_lists |-> << >>, work_start |-> w[1], work_end |-> w[2],
                    as_of |-> IF given THEN dt ELSE None, urgent_days |-> cls_urgent_days]
              now == IF given THEN At(cls_today + 1, 0, 0, 0) ELSE dt
          IN cls_hours' =
                [dt |-> dt, start_hour |-> w[1], end_hour |-> w[2], as_of |-> a.as_of,
                 during |-> is_during_hours(dt, w[1], w[2]),
                 is_work_hours |-> assemble_briefing(a, now).is_work_hours]
    /\ cls_pc' = "hours"
    /\ UNCHANGED << cls_task, cls_urgent_days, cls_as_of, cls_today, cls_urgent,
                    cls_quadrant, cls_label, cls_filtered >>
    /\ UNCHANGED << slotVars, oooVars, taskVars, sortVars, tzVars, confVars, brfVars, journalVars, ro_call >>

ClsNext == IsUrgentCall \/ QuadrantLabelCall \/ FilterCalls \/ IsDuringHoursCall

SpecClassify == ClsInit /\ [][ClsNext]_vars

(***************************************************************************)
(* sort_by_priority, called on a list of tasks                             *)
(***************************************************************************)
MaxSortTasks == 3

SortPriorities == { 1, 5 }
\* The dates of reference: the as_of given, and the current date
SortAsOf == 4
SortToday == 5
\* no due date, overdue, due soon, due 9999 days after SortAsOf, due 9999
\* days after SortToday
SortDueDates == { None, 3, 5, SortAsOf + NoDueDateDays, SortToday + NoDueDateDays }

\* Lists of tasks; the id of a task is its position in the list
SortLists ==
    { [i \in 1..Len(a) |-> Task(i, a[i][1], a[i][2], "Eng", "TEXT")] :
        a \in SeqsUpTo(SortPriorities \X SortDueDates, MaxSortTasks) }

SortInit ==
    /\ sort_tasks \in SortLists
    /\ sort_as_of \in { None, SortAsOf }
    /\ sort_today = SortToday
    /\ sort_pc = "start"
    /\ sort_result = << >>
    /\ SlotIdle /\ OooIdle /\ ClsIdle /\ TaskIdle /\ TzIdle /\ ConfIdle /\ BrfIdle /\ JournalIdle /\ ro_call = [pc |-> "idle"]

\* sort_by_priority(tasks, as_of)
SortByPriorityCall ==
    /\ sort_pc = "start"
    /\ sort_result' = sort_by_priority(sort_tasks, sort_as_of, sort_today)
    /\ sort_pc' = "done"
    /\ UNCHANGED << sort_tasks, sort_as_of, sort_today >>
    /\ UNCHANGED << slotVars, oooVars, clsVars, taskVars, tzVars, confVars, brfVars, journalVars, ro_call >>

SortNext == SortByPriorityCall

SpecSort == SortInit /\ [][SortNext]_vars

(***************************************************************************)
(* core/briefing.py: assemble_briefing, the tasks                          *)
(***************************************************************************)
TaskProjects == { "Eng", "Home", "Misc" }
TaskKinds == { "TEXT", "NOTE" }
TaskAsOf == At(4, 9, 30, 0)
\* no due date, overdue, due in urgent_days days, due a day later
TaskDueDates == { None, 3, 7, 8 }
TaskPriorities == { 1, 5 }

\* The attributes of a task other than its id
TaskAttributes ==
    [priority : TaskPriorities, due_date : TaskDueDates,
     project_name : TaskProjects, kind : TaskKinds]

\* Lists of tasks; the id of a task is its position in the list fetched
TaskLists ==
    { [i \in 1..Len(a) |->
          Task(i, a[i].priority, a[i].due_date, a[i].project_name, a[i].kind)] :
        a \in SeqsUpTo(TaskAttributes, MaxTasks) }

\* (work_task_lists, personal_task_lists) of the configuration
TaskListConfigs ==
    { << << "Eng" >>, << "Home" >> >>,
      << << "Eng", "Home" >>, << "Home" >> >>,
      << << >>, << >> >> }

TaskInit ==
    /\ tasks \in TaskLists
    /\ \E c \in TaskListConfigs : work_task_lists = c[1] /\ personal_task_lists = c[2]
    /\ as_of = TaskAsOf
    /\ urgent_days = 3
    /\ task_pc = "start"
    /\ actionable = << >>
    /\ work = << >>
    /\ personal = << >>
    /\ other = << >>
    /\ SlotIdle /\ OooIdle /\ ClsIdle /\ SortIdle /\ TzIdle /\ ConfIdle /\ BrfIdle /\ JournalIdle /\ ro_call = [pc |-> "idle"]

\* actionable = filter_actionable(tasks, urgent_days, today)
FilterActionable ==
    /\ task_pc = "start"
    /\ actionable' = filter_actionable(tasks, urgent_days, DateOf(as_of), DateOf(as_of))
    /\ task_pc' = "filtered"
    /\ UNCHANGED << tasks, work_task_lists, personal_task_lists, as_of, urgent_days,
                    work, personal, other >>
    /\ UNCHANGED << slotVars, oooVars, clsVars, sortVars, tzVars, confVars, brfVars, journalVars, ro_call >>

\* work, personal, other = categorize_tasks(actionable, ...)
CategorizeTasks ==
    /\ task_pc = "filtered"
    /\ work' = CategorizeWork(actionable, work_task_lists, personal_task_lists)
    /\ personal' = CategorizePersonal(actionable, work_task_lists, personal_task_lists)
    /\ other' = CategorizeOther(actionable, work_task_lists, personal_task_lists)
    /\ task_pc' = "categorized"
    /\ UNCHANGED << tasks, work_task_lists, personal_task_lists, as_of, urgent_days,
                    actionable >>
    /\ UNCHANGED << slotVars, oooVars, clsVars, sortVars, tzVars, confVars, brfVars, journalVars, ro_call >>

\* work = sort_by_priority(work, today), and so for personal and other
SortByPriority ==
    /\ task_pc = "categorized"
    /\ work' = sort_by_priority(work, DateOf(as_of), DateOf(as_of))
    /\ personal' = sort_by_priority(personal, DateOf(as_of), DateOf(as_of))
    /\ other' = sort_by_priority(other, DateOf(as_of), DateOf(as_of))
    /\ task_pc' = "sorted"
    /\ UNCHANGED << tasks, work_task_lists, personal_task_lists, as_of, urgent_days,
                    actionable >>
    /\ UNCHANGED << slotVars, oooVars, clsVars, sortVars, tzVars, confVars, brfVars, journalVars, ro_call >>

TaskNext == FilterActionable \/ CategorizeTasks \/ SortByPriority

SpecTasks == TaskInit /\ [][TaskNext]_vars

(***************************************************************************)
(* core/briefing.py: assemble_briefing, called by two callers              *)
(***************************************************************************)

MaxBrfTasks == 2

Callers == { 1, 2 }

\* (variant: one frame for all calls, as module-level variables would be)
SharedFrame(c) == 1
\* The frame of the call of caller c: each call has locals of its own
FrameOf(c) == c

\* The values the system clock shows
BrfClockValues == { At(4, 10, 0, 0), At(5, 12, 0, 0) }

\* as_of: not given, or a datetime
BrfAsOf == { None, At(4, 9, 30, 0), At(5, 8, 0, 0) }

\* A task due the day after day 4 and an important one due four days after
BrfTasks == { Task(1, 1, 5, "Eng", "TEXT"), Task(2, 5, 8, "Eng", "TEXT") }

\* A meeting on day 4
BrfEvents == << Ev("Meeting", At(4, 9, 20, 0), At(4, 9, 50, 0), "Work", FALSE) >>

BrfArguments ==
    { [tasks |-> ts, events |-> BrfEvents, work_task_lists |-> << "Eng" >>,
       personal_task_lists |-> << "Home" >>, work_start |-> 9, work_end |-> 11,
       as_of |-> t, urgent_days |-> 3] :
        ts \in SeqsUpTo(BrfTasks, MaxBrfTasks), t \in BrfAsOf }

\* The locals of a call that has not begun
NoLocals ==
    [as_of |-> None, today |-> None, actionable |-> << >>, work |-> << >>,
     personal |-> << >>, other |-> << >>, free_slots |-> << >>]

BrfInit ==
    /\ brf_clock \in BrfClockValues
    /\ brf_args \in [Callers -> BrfArguments]
    /\ brf_pc = [c \in Callers |-> "start"]
    /\ brf_clock_read = [c \in Callers |-> None]
    /\ brf_local = [f \in Callers |-> NoLocals]
    /\ brf_result = [c \in Callers |-> << >>]
    /\ SlotIdle /\ OooIdle /\ ClsIdle /\ TaskIdle /\ SortIdle /\ TzIdle /\ ConfIdle /\ JournalIdle /\ ro_call = [pc |-> "idle"]

\* The system clock moves on
ClockTick ==
    /\ \E t \in BrfClockValues : t > brf_clock /\ brf_clock' = t
    /\ UNCHANGED << brf_args, brf_pc, brf_clock_read, brf_local, brf_result >>
    /\ UNCHANGED << slotVars, oooVars, clsVars, taskVars, sortVars, tzVars, confVars, journalVars, ro_call >>

\* A step of the call of caller c from position `from` to position `to`
\* that assigns its locals
BrfStep(c, from, to, locals) ==
    /\ brf_pc[c] = from
    /\ brf_local' = [brf_local EXCEPT ![FrameOf(c)] = locals]
    /\ brf_pc' = [brf_pc EXCEPT ![c] = to]
    /\ UNCHANGED << brf_clock, brf_args, brf_result >>
    /\ UNCHANGED << slotVars, oooVars, clsVars, taskVars, sortVars, tzVars, confVars, journalVars, ro_call >>

\* as_of = as_of or datetime.now(); today = as_of.date()
BrfResolve(c) ==
    LET l == brf_local[FrameOf(c)]
        when == AsOfOrNow(brf_args[c].as_of, brf_clock)
    IN /\ BrfStep(c, "start", "resolved", [l EXCEPT !.as_of = when, !.today = DateOf(when)])
       /\ brf_clock_read' = [brf_clock_read EXCEPT ![c] = brf_clock]

\* actionable = filter_actionable(tasks, urgent_days, today)
BrfFilter(c) ==
    LET l == brf_local[FrameOf(c)] IN
    /\ BrfStep(c, "resolved", "filtered",
               [l EXCEPT !.actionable =
                   filter_actionable(brf_args[c].tasks, brf_args[c].urgent_days,
                                     l.today, DateOf(brf_clock))])
    /\ UNCHANGED brf_clock_read

\* work, personal, other = categorize_tasks(actionable, ...)
BrfCategorize(c) ==
    LET l == brf_local[FrameOf(c)]
        a == brf_args[c]
    IN /\ BrfStep(c, "filtered", "categorized",
                  [l EXCEPT !.work = CategorizeWork(l.actionable, a.work_task_lists,
                                                    a.personal_task_lists),
                            !.personal = CategorizePersonal(l.actionable, a.work_task_lists,
                                                            a.personal_task_lists),
                            !.other = CategorizeOther(l.actionable, a.work_task_lists,
                                                      a.personal_task_lists)])
       /\ UNCHANGED brf_clock_read

\* work = sort_by_priority(work, today), and so for personal and other
BrfSort(c) ==
    LET l == brf_local[FrameOf(c)]
        now == DateOf(brf_clock)
    IN /\ BrfStep(c, "categorized", "sorted",
                  [l EXCEPT !.work = sort_by_priority(l.work, l.today, now),
                            !.personal = sort_by_priority(l.personal, l.today, now),
                            !.other = sort_by_priority(l.other, l.today, now)])
       /\ UNCHANGED brf_clock_read

\* free_slots = find_free_slots(events, work_start, work_end, 30, today)
BrfFreeSlots(c) ==
    LET l == brf_local[FrameOf(c)]
        a == brf_args[c]
    IN /\ BrfStep(c, "sorted", "slotted",
                  [l EXCEPT !.free_slots =
                      find_free_slots(a.events, a.work_start, a.work_end,
                                      BriefingMinDuration, l.today, DateOf(brf_clock))])
       /\ UNCHANGED brf_clock_read

\* return BriefingData(...)
BrfReturn(c) ==
    LET l == brf_local[FrameOf(c)]
        a == brf_args[c]
    IN /\ brf_pc[c] = "slotted"
       /\ brf_result' =
             [brf_result EXCEPT ![c] =
                 BriefingData(l.today, l.work, l.personal, l.other, a.events, l.free_slots,
                              a.work_start <= HourOf(l.as_of) /\ HourOf(l.as_of) < a.work_end,
                              WorkHoursStr(a.work_start, a.work_end))]
       /\ brf_pc' = [brf_pc EXCEPT ![c] = "done"]
       /\ UNCHANGED << brf_clock, brf_args, brf_clock_read, brf_local >>
       /\ UNCHANGED << slotVars, oooVars, clsVars, taskVars, sortVars, tzVars, confVars, journalVars, ro_call >>

BrfNext ==
    \/ ClockTick
    \/ \E c \in Callers :
          \/ BrfResolve(c)
          \/ BrfFilter(c)
          \/ BrfCategorize(c)
          \/ BrfSort(c)
          \/ BrfFreeSlots(c)
          \/ BrfReturn(c)

SpecBriefing == BrfInit /\ [][BrfNext]_vars

(***************************************************************************)
(* Claims about find_free_slots                                            *)
(***************************************************************************)

\* C1: the slots find_free_slots returns do not overlap each other, are in
\* ascending chronological order, and each lasts at least min_duration whole
\* minutes.
C1_SlotsDisjointAscendingLongEnough ==
    pc = "done" =>
        /\ \A i \in 1..Len(free_slots) :
              duration_minutes(free_slots[i]) >= min_duration
        /\ \A i, j \in 1..Len(free_slots) :
              i < j => /\ ~overlaps(free_slots[i], free_slots[j])
                       /\ free_slots[i].start < free_slots[j].start

\* A run that returned two slots after dropping the gap before the first
\* event, which was shorter than min_duration.
C1_Witness ==
    /\ pc = "done"
    /\ min_duration = 30
    /\ Len(free_slots) = 2
    /\ \E i \in 1..Len(timed_events) :
          /\ timed_events[i].start > day_start
          /\ timed_events[i].start <= free_slots[1].start

\* Whether a timed event of the input overlaps [a, b); an event of no
\* length is a busy instant.
BusyIn(a, b) ==
    \E i \in 1..Len(events) :
        IsTimed(events[i]) /\ events[i].start < b /\ a < events[i].end

\* The instants of the window at which a free interval can begin or end
WindowBoundaries ==
    { t \in { day_start, day_end }
            \cup { events[i].start : i \in 1..Len(events) }
            \cup { events[i].end : i \in 1..Len(events) } :
        day_start <= t /\ t <= day_end }

\* The maximal event-free intervals of the window
MaximalFree ==
    { p \in WindowBoundaries \X WindowBoundaries :
        /\ p[1] < p[2]
        /\ ~BusyIn(p[1], p[2])
        /\ p[1] = day_start \/ BusyIn(p[1] - 1, p[2])
        /\ p[2] = day_end \/ BusyIn(p[1], p[2] + 1) }

ExpectedSlots ==
    { TimeSlot(p[1], p[2]) :
        p \in { q \in MaximalFree : q[2] - q[1] >= min_duration * SecondsPerMinute } }

\* C2: find_free_slots returns the exact complement of the busy time: the
\* slots returned are, each once, the maximal event-free intervals of the
\* work window that last at least min_duration minutes.
C2_SlotsAreTheFreeIntervals ==
    pc = "done" =>
        /\ Range(free_slots) = ExpectedSlots
        /\ Len(free_slots) = Cardinality(ExpectedSlots)

\* A run with two events in the window where one free interval was too
\* short to be returned and another was returned.
C2_Witness ==
    /\ pc = "done"
    /\ Len(timed_events) = 2
    /\ free_slots # << >>
    /\ Cardinality(MaximalFree) > Len(free_slots)

\* C3: no returned slot overlaps a timed event of the input (not all-day,
\* end present), also when events overlap each other or are nested.
C3_NoSlotOverlapsTimedEvent ==
    pc = "done" =>
        \A i \in 1..Len(free_slots) : \A j \in 1..Len(events) :
            IsTimed(events[j]) => ~overlaps(free_slots[i], events[j])

\* A run over two events, the second nested in the first, that returned a
\* slot.
C3_Witness ==
    /\ pc = "done"
    /\ Len(timed_events) = 2
    /\ timed_events[1].start < timed_events[2].start
    /\ timed_events[2].end < timed_events[1].end
    /\ timed_events[1].end < day_end
    /\ free_slots # << >>

\* C21: every slot find_free_slots returns lies in the work window and is not
\* empty, day_start <= start < end <= day_end, for any events (also events
\* that begin before or end after the window) and any min_duration, 0
\* included.
C21_SlotsInsideWindowAndNotEmpty ==
    \A i \in 1..Len(free_slots) :
        /\ day_start <= free_slots[i].start
        /\ free_slots[i].start < free_slots[i].end
        /\ free_slots[i].end <= day_end

\* A run with min_duration = 0 over an event that begins before the window
\* and an event that ends after it, which returned the gap between them.
C21_Witness ==
    /\ pc = "done"
    /\ min_duration = 0
    /\ Len(timed_events) = 2
    /\ timed_events[1].start < day_start /\ timed_events[1].end > day_start
    /\ timed_events[2].start < day_end /\ timed_events[2].end > day_end
    /\ free_slots = << TimeSlot(timed_events[1].end, timed_events[2].start) >>

\* The instants inside the window at which one timed event of positive
\* length ends and another one begins
BackToBackInstants ==
    { timed_events[i].end : i \in { k \in 1..Len(timed_events) :
        /\ timed_events[k].start < timed_events[k].end
        /\ day_start < timed_events[k].end /\ timed_events[k].end < day_end
        /\ \E j \in 1..Len(timed_events) :
              /\ timed_events[j].start = timed_events[k].end
              /\ timed_events[j].start < timed_events[j].end } }

\* C22, as claimed: with min_duration = 0 the zero-duration gap between two
\* back-to-back events is returned as a free slot.
C22_ZeroLengthGapReturned ==
    (pc = "done" /\ min_duration = 0) =>
        \A t \in BackToBackInstants : \E i \in 1..Len(free_slots) :
            free_slots[i] = TimeSlot(t, t)

\* C22, amended: the zero-duration gap between two back-to-back events is
\* not returned as a free slot, with min_duration = 0 as with min_duration
\* > 0.
C22_ZeroLengthGapNeverReturned ==
    pc = "done" =>
        \A t \in BackToBackInstants : \A i \in 1..Len(free_slots) :
            free_slots[i] # TimeSlot(t, t)

\* A run with min_duration = 0 over two back-to-back events inside the
\* window, which returned the gap before them and the gap after them.
C22_Witness ==
    /\ pc = "done"
    /\ min_duration = 0
    /\ BackToBackInstants # {}
    /\ Len(free_slots) = 2

\* Whether the event at position k of timed_events lies in the span of an
\* event before it
InSpanOfEarlier(k) ==
    \E j \in 1..(k - 1) :
        /\ timed_events[j].start <= timed_events[k].start
        /\ timed_events[k].end <= timed_events[j].end

\* C26, as claimed: while the loop walks the timed events, current_time
\* never moves backward and is always in [day_start, day_end], and an event
\* inside the span of an earlier event adds no slot.
C26_CursorForwardInsideWindow ==
    [][pc' = "loop" =>
         /\ day_start' <= current_time' /\ current_time' <= day_end'
         /\ pc = "loop" =>
               /\ current_time' >= current_time
               /\ InSpanOfEarlier(idx) => free_slots' = free_slots]_vars

\* C26, amended: while the loop walks the timed events, current_time never
\* moves backward and never is before day_start; it never is after day_end
\* when work_start <= work_end, and stays at day_start when work_start >
\* work_end; an event inside the span of an earlier event adds no slot.
C26_CursorForwardFromDayStart ==
    [][pc' = "loop" =>
         /\ day_start' <= current_time'
         /\ work_start' <= work_end' => current_time' <= day_end'
         /\ work_start' > work_end' => current_time' = day_start'
         /\ pc = "loop" =>
               /\ current_time' >= current_time
               /\ InSpanOfEarlier(idx) => free_slots' = free_slots]_vars

\* The loop has walked an event and then an event inside the span of the
\* first, and the cursor is at the end of the first.
C26_Witness ==
    /\ pc = "loop"
    /\ idx = 3
    /\ InSpanOfEarlier(2)
    /\ day_start < timed_events[1].start
    /\ timed_events[2].end < timed_events[1].end
    /\ timed_events[1].end < day_end
    /\ current_time = timed_events[1].end
    /\ Len(free_slots) = 1

\* C29: for timezone-naive events, the empty list included, the
\* find_free_slots of friday/calendar.py returns the slots the core returns
\* when called without target_date, for the same work_start, work_end and
\* min_duration.
C29_CalendarEqualsCore ==
    (pc = "compared" /\ target_date = None) => cal_free_slots = free_slots

\* C17: find_free_slots never fails on a comparison between a naive and an
\* aware datetime: for any list of events whose starts and ends are each
\* naive or aware, not necessarily all of one kind, the work-hour boundaries
\* take their awareness from the events and the call returns a list of
\* slots instead of raising.
C17_NeverRaisesOnMixedAwareness ==
    tz_pc # "start" => ~tz_result.raised

\* The timed events of the input without awareness
TzTimed == SelectSeq(tz_events, LAMBDA e : e.all_day = FALSE /\ e.end # None)

\* The work window of the call
TzDayStart == (IF tz_target_date # None THEN tz_target_date
               ELSE IF tz_events # << >> THEN tz_events[1].start \div SecondsPerDay
               ELSE tz_today) * SecondsPerDay + tz_work_start * SecondsPerHour
TzDayEnd == TzDayStart + (tz_work_end - tz_work_start) * SecondsPerHour

\* C18 as stated: all-day events and events with no end never occupy a
\* slot: with an explicit target_date, find_free_slots returns the slots it
\* returns when those events are removed from the input; when the input has
\* no timed event at all it returns a single slot spanning the whole work
\* window, provided the window lasts at least min_duration minutes.
C18_AllDayAndOpenEndedOccupyNothing ==
    tz_pc = "done" =>
        /\ tz_target_date # None => tz_result = tz_result_timed_only
        /\ ( /\ TzTimed = << >>
             /\ (tz_work_end - tz_work_start) * 60 >= tz_min_duration )
           => /\ ~tz_result.raised
              /\ tz_result.slots = << TimeSlot(TzDayStart, TzDayEnd) >>

\* C18 as amended: with an explicit target_date the call ends as it does
\* when those events are removed, with slots of the same start and end, and
\* of the same awareness when a timed event is left; with no timed event at
\* all it returns the single slot spanning the window, provided the window
\* is not empty (work_start < work_end) and lasts at least min_duration
\* minutes.
C18_AllDayAndOpenEndedOccupyNoTime ==
    tz_pc = "done" =>
        /\ tz_target_date # None =>
              /\ tz_result.raised = tz_result_timed_only.raised
              /\ tz_result.slots = tz_result_timed_only.slots
              /\ TzTimed # << >> => tz_result.aware = tz_result_timed_only.aware
        /\ ( /\ TzTimed = << >>
             /\ tz_work_start < tz_work_end
             /\ (tz_work_end - tz_work_start) * 60 >= tz_min_duration )
           => /\ ~tz_result.raised
              /\ tz_result.slots = << TimeSlot(TzDayStart, TzDayEnd) >>

\* A call with an explicit target_date on an all-day event, which spans the
\* work window, and a timed event: it returned two slots, as the call on the
\* timed event alone did.
C18_Witness ==
    /\ tz_pc = "done"
    /\ tz_target_date # None
    /\ Len(tz_events) = 2
    /\ tz_events[1].all_day /\ tz_events[1].start <= TzDayStart
    /\ tz_events[1].end >= TzDayEnd
    /\ Len(TzTimed) = 1 /\ TzTimed[1].start > TzDayStart
    /\ ~tz_result.raised /\ Len(tz_result.slots) = 2
    /\ tz_result.slots = tz_result_timed_only.slots

(***************************************************************************)
(* Claims about find_conflicts                                             *)
(***************************************************************************)

\* The pairs of positions of the input that hold two timed events that
\* overlap
OverlappingPositions ==
    { q \in (1..Len(conf_events)) \X (1..Len(conf_events)) :
        /\ q[1] < q[2]
        /\ conf_events[q[1]].all_day = FALSE /\ conf_events[q[1]].end # None
        /\ conf_events[q[2]].all_day = FALSE /\ conf_events[q[2]].end # None
        /\ conf_events[q[1]].start < conf_events[q[2]].end
        /\ conf_events[q[2]].start < conf_events[q[1]].end }

\* C19: find_conflicts returns exactly the overlapping pairs of timed
\* events, whatever the input order: a pair (e1, e2), e1 starting no later
\* than e2, is reported once if and only if e1.start < e2.end and
\* e2.start < e1.end; events that only touch are not reported, and all-day
\* and open-ended events are in no pair.
C19_ConflictsAreTheOverlappingPairs ==
    conf_pc = "done" =>
        /\ \A k \in 1..Len(conflicts) :
              LET e1 == conflicts[k][1]
                  e2 == conflicts[k][2]
              IN /\ e1.all_day = FALSE /\ e1.end # None
                 /\ e2.all_day = FALSE /\ e2.end # None
                 /\ e1.start <= e2.start
                 /\ e1.start < e2.end /\ e2.start < e1.end
        /\ \A q \in OverlappingPositions :
              \E k \in 1..Len(conflicts) :
                  { conflicts[k][1], conflicts[k][2] }
                    = { conf_events[q[1]], conf_events[q[2]] }
        /\ Len(conflicts) = Cardinality(OverlappingPositions)

(***************************************************************************)
(* Claims about drop_redundant_ooo                                         *)
(***************************************************************************)

\* C4: drop_redundant_ooo is idempotent: a second pass, over what the first
\* returned, returns the same list and drops no event.
C4_DropRedundantOooIdempotent ==
    ooo_calls = 2 => ooo_result = ooo_previous /\ drop = {}

\* A second pass over a list that still holds an OOO event, after a first
\* pass that dropped events.
C4_Witness ==
    /\ ooo_calls = 2
    /\ Len(ooo_previous) < Len(ooo_fetched)
    /\ ooo_indices # {}
    /\ Len(ooo_events) >= 2

\* Whether the event at index k of the latest argument is an all-day OOO
IsAllDayOoo(k) == ooo_events[k].all_day /\ OooPatternSearch(ooo_events[k].title)

SameCalendarAndDate(i, k) ==
    /\ ooo_events[i].calendar = ooo_events[k].calendar
    /\ DateOf(ooo_events[i].start) = DateOf(ooo_events[k].start)

\* C5: if the input holds an all-day OOO event for a (calendar, start date),
\* every other event of that calendar starting on that date is dropped,
\* whether or not its own title is an OOO title.
C5_AllDayOooDropsEveryOtherEvent ==
    ooo_calls = 1 =>
        \A k \in 1..Len(ooo_events) : \A i \in 1..Len(ooo_events) :
            (IsAllDayOoo(k) /\ i # k /\ SameCalendarAndDate(i, k)) => i \in drop

\* a.start < b.end and b.start < a.end, a missing end replaced by the start
TemporallyOverlap(a, b) ==
    /\ a.start < (IF b.end = None THEN b.start ELSE b.end)
    /\ b.start < (IF a.end = None THEN a.start ELSE a.end)

\* C6: rule 1 removes an event if and only if its title matches the OOO
\* pattern and it overlaps an event of a different calendar; an event whose
\* title does not match is removed only by rule 2, never because of an
\* overlap, and an overlap within one calendar removes nothing.
C6_RuleOneExactly ==
    ooo_calls = 1 =>
        \A i \in 1..Len(ooo_events) :
            IF OooPatternSearch(ooo_events[i].title)
            THEN i \in drop <=>
                   \E j \in 1..Len(ooo_events) :
                       /\ j # i
                       /\ ooo_events[j].calendar # ooo_events[i].calendar
                       /\ TemporallyOverlap(ooo_events[i], ooo_events[j])
            ELSE i \in drop =>
                   \E k \in 1..Len(ooo_events) : IsAllDayOoo(k) /\ SameCalendarAndDate(i, k)

\* A pass that dropped an OOO event overlapping an open-ended event of
\* another calendar, kept an OOO event overlapping only an event of its own
\* calendar, and kept the overlapping event whose title is no OOO title.
C6_Witness ==
    /\ ooo_calls = 1
    /\ \E i, j, k \in 1..Len(ooo_events) :
          /\ OooPatternSearch(ooo_events[i].title) /\ i \in drop
          /\ ooo_events[j].end = None /\ ~ooo_events[j].all_day
          /\ ooo_events[j].calendar # ooo_events[i].calendar
          /\ TemporallyOverlap(ooo_events[i], ooo_events[j])
          /\ ~OooPatternSearch(ooo_events[j].title) /\ j \notin drop
          /\ k # i /\ OooPatternSearch(ooo_events[k].title) /\ k \notin drop
          /\ ooo_events[k].calendar = ooo_events[i].calendar
          /\ TemporallyOverlap(ooo_events[k], ooo_events[i])

\* C7: rule 2 is evaluated against the original list, independently of rule
\* 1: an event whose title is no OOO title and that shares calendar and
\* start date with an all-day OOO event of the input is removed, whether or
\* not the two overlap and whether or not rule 1 removes that OOO event.
C7_RuleTwoOnOriginalList ==
    ooo_calls = 1 =>
        \A i \in 1..Len(ooo_events) : \A k \in 1..Len(ooo_events) :
            ( /\ ~OooPatternSearch(ooo_events[i].title)
              /\ IsAllDayOoo(k)
              /\ SameCalendarAndDate(i, k) ) => i \in drop

\* A pass in which rule 1 removed the all-day OOO event and rule 2 removed
\* an event of its calendar and date that does not overlap it.
C7_Witness ==
    /\ ooo_calls = 1
    /\ \E i, k \in 1..Len(ooo_events) :
          /\ IsAllDayOoo(k) /\ k \in drop
          /\ ~OooPatternSearch(ooo_events[i].title)
          /\ SameCalendarAndDate(i, k)
          /\ ~TemporallyOverlap(ooo_events[i], ooo_events[k])
          /\ i \in drop

\* Whether r is s with some of its elements left out: every element of r is
\* an element of s at a position of its own, in the order of s
RECURSIVE IsSubsequence(_, _)
IsSubsequence(r, s) ==
    IF r = << >> THEN TRUE
    ELSE IF s = << >> THEN FALSE
    ELSE IF Head(r) = Head(s) THEN IsSubsequence(Tail(r), Tail(s))
    ELSE IsSubsequence(r, Tail(s))

\* C24: what drop_redundant_ooo returns is a subsequence of its input: only
\* events of the input, none added or duplicated, in their original relative
\* order; when no title matches the OOO pattern it is the input, event for
\* event.
C24_ResultIsSubsequenceOfInput ==
    ooo_calls >= 1 =>
        /\ IsSubsequence(ooo_result, ooo_events)
        /\ (\A i \in 1..Len(ooo_events) : ~OooPatternSearch(ooo_events[i].title))
              => ooo_result = ooo_events

\* A pass over three events that dropped the second and returned the first
\* and the third, two different events, in that order.
C24_Witness ==
    /\ ooo_calls = 1
    /\ Len(ooo_events) = 3
    /\ drop = { 2 }
    /\ ooo_events[1] # ooo_events[3]
    /\ ooo_result = << ooo_events[1], ooo_events[3] >>

(***************************************************************************)
(* Claims about the tasks                                                  *)
(***************************************************************************)

\* The three lists categorize_tasks returned, one after the other
Categorized == work \o personal \o other

\* C8: categorize_tasks places every input task in exactly one of the three
\* lists returned (work, personal, other), whatever work_lists and
\* personal_lists are: the lists are pairwise disjoint and together hold
\* every input task.
C8_CategorizePartitions ==
    task_pc = "categorized" =>
        /\ \A i \in 1..Len(actionable) :
              Cardinality({ k \in 1..Len(Categorized) : Categorized[k] = actionable[i] }) = 1
        /\ Range(Categorized) \subseteq Range(actionable)

\* C9: a task whose project_name is in both work_lists and personal_lists
\* is returned in the work list only, not in the personal list.
C9_WorkBeforePersonal ==
    task_pc = "categorized" =>
        \A i \in 1..Len(actionable) :
            ( /\ InList(actionable[i].project_name, work_task_lists)
              /\ InList(actionable[i].project_name, personal_task_lists) )
            => /\ actionable[i] \in Range(work)
               /\ actionable[i] \notin Range(personal)
               /\ actionable[i] \notin Range(other)

\* C10: is_urgent is false for a task without due date, and otherwise true
\* exactly when (due_date - as_of).days <= urgent_days (as_of being the
\* current date when none is given): urgent when due in exactly urgent_days
\* days, not urgent when due a day later, and, for urgent_days >= 0, urgent
\* when overdue, however far.
C10_IsUrgentBoundary ==
    cls_pc = "done" =>
        LET ref == IF cls_as_of = None THEN cls_today ELSE cls_as_of
            due == cls_task.due_date
        IN IF due = None THEN ~cls_urgent
           ELSE /\ cls_urgent <=> (due - ref <= cls_urgent_days)
                /\ due - ref = cls_urgent_days => cls_urgent
                /\ due - ref = cls_urgent_days + 1 => ~cls_urgent
                /\ (cls_urgent_days >= 0 /\ due < ref) => cls_urgent

\* A call on a task due in exactly urgent_days = 3 days from the as_of given,
\* which differs from the current date, found urgent.
C10_Witness ==
    /\ cls_pc = "done"
    /\ cls_as_of = 4
    /\ cls_urgent_days = 3
    /\ cls_task.due_date = cls_as_of + cls_urgent_days
    /\ cls_urgent

\* C11: quadrant is total and exact: for every priority and every due date
\* (none, past, today, future) it returns one value of 1..4: 1 iff urgent
\* and important (priority >= 3), 2 iff important and not urgent, 3 iff
\* urgent and not important, 4 iff neither; and quadrant_label returns Do,
\* Schedule, Delegate, Delete for 1, 2, 3, 4, with no key missing.
C11_QuadrantTotalAndExact ==
    cls_pc = "labelled" =>
        LET ref == IF cls_as_of = None THEN cls_today ELSE cls_as_of
            due == cls_task.due_date
            urgent == due # None /\ due - ref <= cls_urgent_days
            important == cls_task.priority >= 3
        IN /\ cls_quadrant \in { 1, 2, 3, 4 }
           /\ cls_quadrant = 1 <=> (urgent /\ important)
           /\ cls_quadrant = 2 <=> (~urgent /\ important)
           /\ cls_quadrant = 3 <=> (urgent /\ ~important)
           /\ cls_quadrant = 4 <=> (~urgent /\ ~important)
           /\ cls_quadrant = 1 => cls_label = "Do"
           /\ cls_quadrant = 2 => cls_label = "Schedule"
           /\ cls_quadrant = 3 => cls_label = "Delegate"
           /\ cls_quadrant = 4 => cls_label = "Delete"

\* A call on an overdue task of priority 2, labelled Delegate.
C11_Witness ==
    /\ cls_pc = "labelled"
    /\ cls_as_of = 4
    /\ cls_task.due_date # None /\ cls_task.due_date < cls_as_of
    /\ cls_task.priority = 2
    /\ cls_quadrant = 3
    /\ cls_label = "Delegate"

\* Whether a task is due within urgent_days days of the date of as_of
DueSoon(t) == t.due_date # None /\ t.due_date - DateOf(as_of) <= urgent_days

\* Whether a task is no note and is due soon
NonNoteDueSoon(t) == t.kind # "NOTE" /\ DueSoon(t)

\* C12: filter_actionable keeps, in input order, exactly the tasks that are
\* no notes and are urgent or of quadrant 1, which are the tasks that are no
\* notes and are urgent: an important task that is not urgent (quadrant 2)
\* and a task without due date are never kept.
C12_ActionableIsNonNoteUrgent ==
    task_pc # "start" =>
        /\ actionable = SelectSeq(tasks, NonNoteDueSoon)
        /\ \A i \in 1..Len(actionable) :
              /\ actionable[i].due_date # None
              /\ ~(actionable[i].priority >= 3 /\ ~DueSoon(actionable[i]))

\* A call that kept the second of two tasks and not the first, an important
\* task that is no note and is due a day too late to be urgent.
C12_Witness ==
    /\ task_pc = "filtered"
    /\ Len(tasks) = 2
    /\ tasks[1].priority = 5 /\ tasks[1].kind = "TEXT"
    /\ tasks[1].due_date = DateOf(as_of) + urgent_days + 1
    /\ actionable = << tasks[2] >>

\* Whether a list of tasks is in the order of sort_by_priority: priority
\* descending, then due date ascending, then the order of the input
InPriorityOrder(list) ==
    \A i, j \in 1..Len(list) :
        i < j =>
            \/ list[i].priority > list[j].priority
            \/ /\ list[i].priority = list[j].priority
               /\ list[i].due_date < list[j].due_date
            \/ /\ list[i].priority = list[j].priority
               /\ list[i].due_date = list[j].due_date
               /\ list[i].id < list[j].id

\* C16: in the BriefingData assemble_briefing returns, the tasks of
\* work_tasks, personal_tasks and other_tasks together are exactly the tasks
\* filter_actionable(tasks, urgent_days, as_of.date()) kept: no actionable
\* task is missing, no note and no task that is not urgent is included, and
\* each of the three lists is in sort_by_priority order.
C16_BriefingTasksAreTheActionableSorted ==
    task_pc = "sorted" =>
        /\ Range(work) \cup Range(personal) \cup Range(other) = Range(actionable)
        /\ \A t \in Range(work) \cup Range(personal) \cup Range(other) :
              t \in Range(tasks) /\ NonNoteDueSoon(t)
        /\ \A t \in Range(tasks) :
              NonNoteDueSoon(t) => t \in Range(work) \cup Range(personal) \cup Range(other)
        /\ InPriorityOrder(work) /\ InPriorityOrder(personal) /\ InPriorityOrder(other)

\* A call on two actionable work tasks, the second of higher priority, whose
\* work list comes back with the two exchanged.
C16_Witness ==
    /\ task_pc = "sorted"
    /\ Len(actionable) = 2
    /\ actionable[1].priority < actionable[2].priority
    /\ work = << actionable[2], actionable[1] >>
    /\ personal = << >>

(***************************************************************************)
(* Claims about sort_by_priority                                           *)
(***************************************************************************)

\* The date days are counted from
SortRef == IF sort_as_of = None THEN sort_today ELSE sort_as_of

\* The key of the specification: (-priority, days until due, or 9999)
SortOrderKey(t) ==
    << 0 - t.priority, IF t.due_date = None THEN 9999 ELSE t.due_date - SortRef >>

\* C13: sort_by_priority returns a permutation of its input in ascending
\* order of the key (-priority, days until due or 9999): higher priority
\* first and, among equal priority, the earlier due date first; the sort is
\* stable: tasks with equal priority and due date keep their input order.
C13_SortIsStablePermutationByKey ==
    sort_pc = "done" =>
        /\ Len(sort_result) = Len(sort_tasks)
        /\ \A k \in 1..Len(sort_tasks) :
              Cardinality({ i \in 1..Len(sort_result) : sort_result[i] = sort_tasks[k] })
                = Cardinality({ i \in 1..Len(sort_tasks) : sort_tasks[i] = sort_tasks[k] })
        /\ \A i, j \in 1..Len(sort_result) :
              i < j =>
                LET a == sort_result[i]
                    b == sort_result[j]
                IN /\ SortOrderKey(a)[1] < SortOrderKey(b)[1]
                      \/ /\ SortOrderKey(a)[1] = SortOrderKey(b)[1]
                         /\ SortOrderKey(a)[2] <= SortOrderKey(b)[2]
                   /\ a.priority >= b.priority
                   /\ ( /\ a.priority = b.priority
                        /\ a.due_date # None /\ b.due_date # None )
                      => a.due_date <= b.due_date
                   /\ (a.priority = b.priority /\ a.due_date = b.due_date)
                      => a.id < b.id

\* A call on three tasks that moved the third, of higher priority, to the
\* front and left the other two, of equal priority and due date, in their
\* order.
C13_Witness ==
    /\ sort_pc = "done"
    /\ Len(sort_tasks) = 3
    /\ sort_tasks[1].priority = 1 /\ sort_tasks[2].priority = 1
    /\ sort_tasks[1].due_date = 3 /\ sort_tasks[2].due_date = 3
    /\ sort_tasks[3].priority = 5
    /\ sort_result = << sort_tasks[3], sort_tasks[1], sort_tasks[2] >>

\* C14: in the output of sort_by_priority a task with no due date comes
\* after every task of the same priority that has a due date, whatever that
\* due date is.
C14_NoDueDateAfterDated ==
    sort_pc = "done" =>
        \A i, j \in 1..Len(sort_result) :
            ( /\ sort_result[i].due_date = None
              /\ sort_result[j].due_date # None
              /\ sort_result[i].priority = sort_result[j].priority )
            => j < i

(***************************************************************************)
(* Claims about assemble_briefing                                          *)
(***************************************************************************)

\* C15: assemble_briefing is deterministic: two calls with equal tasks,
\* events, work and personal lists, work_start, work_end, as_of and
\* urgent_days return equal BriefingData, whatever call came before and,
\* when as_of is given, whatever the system clock shows.
C15_BriefingDeterministic ==
    \A c, d \in Callers :
        ( /\ brf_pc[c] = "done" /\ brf_pc[d] = "done"
          /\ brf_args[c] = brf_args[d]
          /\ brf_args[c].as_of # None )
        => brf_result[c] = brf_result[d]

\* Two calls with equal arguments, as_of given, that read the clock on
\* different days, the second begun after the first returned.
C15_Witness ==
    /\ brf_pc[1] = "done" /\ brf_pc[2] = "done"
    /\ brf_args[1] = brf_args[2]
    /\ brf_args[1].as_of # None
    /\ Len(brf_args[1].tasks) = 2
    /\ DateOf(brf_clock_read[1]) # DateOf(brf_clock_read[2])
    /\ brf_result[1].free_slots # << >>
    /\ brf_result[1].work_tasks # << >>

\* C20: concurrent calls of the core do not interfere: in any interleaving
\* of two calls of assemble_briefing, made with different as_of and inputs,
\* each call returns what it returns when run alone.
C20_ConcurrentCallsDoNotInterfere ==
    \A c \in Callers :
        brf_pc[c] = "done" => brf_result[c] = assemble_briefing(brf_args[c], brf_clock_read[c])

\* Two calls with different as_of and tasks, the second begun while the
\* first was between its steps, that returned different task lists.
C20_Witness ==
    /\ brf_pc[1] = "done" /\ brf_pc[2] = "slotted"
    /\ brf_args[1].as_of # None /\ brf_args[2].as_of # None
    /\ DateOf(brf_args[1].as_of) # DateOf(brf_args[2].as_of)
    /\ brf_args[1].tasks # brf_args[2].tasks
    /\ brf_result[1].work_tasks # brf_local[2].work
    /\ brf_local[2].work # << >>

(***************************************************************************)
(* Claims about the work hours and the filters of notes                    *)
(***************************************************************************)

\* Whether the time of day of dt is at or after start_hour o'clock and
\* before end_hour o'clock
InsideHours(dt, start_hour, end_hour) ==
    LET time_of_day == dt % SecondsPerDay IN
    /\ start_hour * SecondsPerHour <= time_of_day
    /\ time_of_day < end_hour * SecondsPerHour

\* C23: is_during_hours, and is_work_hours of assemble_briefing, are true
\* exactly when start_hour <= dt.hour < end_hour: a time in the start hour is
\* inside and a time in the end hour is outside, whatever the minutes.
C23_WorkHoursHalfOpenByHour ==
    cls_pc = "hours" =>
        LET inside == InsideHours(cls_hours.dt, cls_hours.start_hour, cls_hours.end_hour) IN
        /\ cls_hours.during = inside
        /\ cls_hours.is_work_hours = inside

\* A call at 17:59 for the hours 9 to 17, as_of taken from the clock, that
\* answered no.
C23_Witness ==
    /\ cls_pc = "hours"
    /\ cls_hours.start_hour = 9 /\ cls_hours.end_hour = 17
    /\ HourOf(cls_hours.dt) = 17 /\ cls_hours.dt % SecondsPerHour # 0
    /\ cls_hours.as_of = None
    /\ ~cls_hours.during /\ ~cls_hours.is_work_hours

\* The date the filters measure the due dates from
ClsRef == IF cls_as_of # None THEN cls_as_of ELSE cls_today

\* C28: for the same urgent_days and as_of, a task due within urgent_days
\* (overdue included) is returned by exactly one of filter_actionable and
\* filter_notes: a NOTE by filter_notes only, a task of any other kind by
\* filter_actionable only; a task without due date is returned by neither.
C28_DueSoonInExactlyOneFilter ==
    cls_pc = "filtered" =>
        \A i \in 1..Len(cls_filtered.tasks) :
            LET t == cls_filtered.tasks[i]
                in_actionable == InList(t, cls_filtered.actionable)
                in_notes == InList(t, cls_filtered.notes)
            IN /\ (t.due_date # None /\ t.due_date - ClsRef <= cls_urgent_days) =>
                     /\ in_notes = (t.kind = "NOTE")
                     /\ in_actionable = (t.kind # "NOTE")
               /\ t.due_date = None => ~in_notes /\ ~in_actionable

\* The filters called on an overdue note and an overdue task of a kind the
\* code does not know: the note is among the notes, the other task among
\* the actionable tasks.
C28_Witness ==
    /\ cls_pc = "filtered"
    /\ cls_filtered.tasks[1].kind = "NOTE"
    /\ cls_filtered.tasks[2].kind = "CHECKLIST"
    /\ cls_filtered.tasks[1].due_date # None
    /\ cls_filtered.tasks[1].due_date < ClsRef
    /\ cls_filtered.notes = << cls_filtered.tasks[1] >>
    /\ cls_filtered.actionable = << cls_filtered.tasks[2] >>

(***************************************************************************)
(* adapters/file_journal.py, telegram_handlers.py: the daily journal and   *)
(* the recap conversation of the Telegram bot                              *)
(*                                                                         *)
(* A file is the sequence of its lines and a line a sequence of strings;   *)
(* the markdown of a recap is one line that holds the wins, the blockers,  *)
(* the energy and the focus.  The calls of the Telegram API return, and    *)
(* the updates are those the conversation handles: a text in a state with  *)
(* no text handler goes to journal_handler, which writes a Notes section.  *)
(***************************************************************************)
MaxSections == 2
MaxUpdates == 6

JournalInit ==
    /\ jr_today = 1
    \* no file yet, or the file of today with an Evening Recap of the CLI
    /\ \E earlier \in BOOLEAN :
          /\ jr_files = IF earlier
                        THEN [d \in { 1 } |->
                                << << "## ", "Evening Recap" >>, << >>, << "recap" >> >>]
                        ELSE << >>
          /\ jr_log = IF earlier
                      THEN [d \in { 1 } |->
                              << [header |-> "Evening Recap", content |-> << "recap" >>] >>]
                      ELSE << >>
    /\ rc_state = "END"
    /\ user_data = << >>
    /\ rc_path = << >>
    /\ rc_last = ""
    /\ rc_updates = 0
    /\ rc_wrote = 0
    /\ SlotIdle /\ OooIdle /\ ClsIdle /\ TaskIdle /\ SortIdle /\ TzIdle /\ ConfIdle /\ BrfIdle /\ ro_call = [pc |-> "idle"]

\* (variant: the file written with the new section only)
JournalAppendOverwriting(for_date, section_header, content) ==
    LET section == << << "## ", section_header >>, << >>, content >>
    IN /\ (IF 0 \in DOMAIN jr_log THEN Len(jr_log[0]) ELSE 0)
          + (IF 1 \in DOMAIN jr_log THEN Len(jr_log[1]) ELSE 0) < MaxSections
       /\ jr_files' = [d \in DOMAIN jr_files \cup { for_date } |->
                         IF d = for_date THEN section ELSE jr_files[d]]
       /\ jr_log' = [d \in DOMAIN jr_log \cup { for_date } |->
                       IF d # for_date THEN jr_log[d]
                       ELSE Append(IF d \in DOMAIN jr_log THEN jr_log[d] ELSE << >>,
                                   [header |-> section_header, content |-> content])]
       /\ rc_last' = "append"
       /\ UNCHANGED << jr_today, rc_state, user_data, rc_path, rc_updates, rc_wrote >>
       /\ UNCHANGED << slotVars, oooVars, clsVars, taskVars, sortVars, tzVars, confVars, brfVars, ro_call >>
\* FileJournalStore.append(for_date, section_header, content)
JournalAppend(for_date, section_header, content) ==
    LET section == << << "## ", section_header >>, << >>, content >>
        new_content ==
            IF for_date \in DOMAIN jr_files
            THEN jr_files[for_date] \o << << >>, << "---" >>, << >> >> \o section
            ELSE section
    IN /\ (IF 0 \in DOMAIN jr_log THEN Len(jr_log[0]) ELSE 0)
          + (IF 1 \in DOMAIN jr_log THEN Len(jr_log[1]) ELSE 0) < MaxSections
       /\ jr_files' = [d \in DOMAIN jr_files \cup { for_date } |->
                         IF d = for_date THEN new_content ELSE jr_files[d]]
       /\ jr_log' = [d \in DOMAIN jr_log \cup { for_date } |->
                       IF d # for_date THEN jr_log[d]
                       ELSE Append(IF d \in DOMAIN jr_log THEN jr_log[d] ELSE << >>,
                                   [header |-> section_header, content |-> content])]
       /\ rc_last' = "append"
       /\ UNCHANGED << jr_today, rc_state, user_data, rc_path, rc_updates, rc_wrote >>
       /\ UNCHANGED << slotVars, oooVars, clsVars, taskVars, sortVars, tzVars, confVars, brfVars, ro_call >>

\* What a recap handler leaves: the state it returns, user_data and the
\* journal; `update` names the update it handled
RecapStep(update, state, data, files, log, wrote) ==
    /\ rc_updates < MaxUpdates
    /\ rc_state' = state
    /\ user_data' = data
    /\ jr_files' = files
    /\ jr_log' = log
    /\ rc_wrote' = wrote
    /\ rc_last' = update
    /\ rc_updates' = IF update = "/evening" THEN 1 ELSE rc_updates + 1
    /\ rc_path' = IF update = "/evening" THEN << state >>
                  ELSE IF state = rc_state THEN rc_path
                  ELSE Append(rc_path, state)
    /\ UNCHANGED jr_today
    /\ UNCHANGED << slotVars, oooVars, clsVars, taskVars, sortVars, tzVars, confVars, brfVars, ro_call >>

\* recap_start_handler, the entry point /evening
RecapStart ==
    LET stored == [k \in DOMAIN user_data \cup { "journal_dir" } |->
                      IF k = "journal_dir" THEN "journal/daily" ELSE user_data[k]]
        has_recap ==
            /\ jr_today \in DOMAIN jr_files
            /\ \E i \in 1..Len(jr_files[jr_today]) :
                  jr_files[jr_today][i] = << "## ", "Evening Recap" >>
        with_recap(data) ==
            [k \in DOMAIN data \cup { "recap" } |->
                IF k = "recap"
                THEN [date |-> jr_today, wins |-> << >>, blockers |-> << >>,
                      energy |-> "None", tomorrow_focus |-> ""]
                ELSE data[k]]
    IN /\ rc_state = "END"
       /\ (IF 0 \in DOMAIN jr_log THEN Len(jr_log[0]) ELSE 0)
          + (IF 1 \in DOMAIN jr_log THEN Len(jr_log[1]) ELSE 0) < MaxSections
       /\ IF has_recap
          THEN RecapStep("/evening", "CONFIRM_OVERWRITE", stored, jr_files, jr_log, 0)
          ELSE RecapStep("/evening", "WINS", with_recap(stored), jr_files, jr_log, 0)

\* recap_confirm_handler, on a button tapped
RecapConfirm(button) ==
    LET with_recap ==
            [k \in DOMAIN user_data \cup { "recap" } |->
                IF k = "recap"
                THEN [date |-> jr_today, wins |-> << >>, blockers |-> << >>,
                      energy |-> "None", tomorrow_focus |-> ""]
                ELSE user_data[k]]
    IN /\ rc_state = "CONFIRM_OVERWRITE"
       /\ IF button = "recap_cancel"
          THEN RecapStep(button, "END", user_data, jr_files, jr_log, rc_wrote)
          ELSE IF button = "recap_overwrite"
          THEN RecapStep(button, "WINS", with_recap, jr_files, jr_log, rc_wrote)
          ELSE RecapStep(button, "CONFIRM_OVERWRITE", user_data, jr_files, jr_log, rc_wrote)

\* recap_wins_handler, on a button tapped or, with button = "", on a text
\* whose comma-separated parts are `parts`
RecapWins(button, parts) ==
    LET recap == user_data["recap"]
        added(items) == [user_data EXCEPT !["recap"] =
                            [recap EXCEPT !.wins = recap.wins \o items]]
    IN /\ rc_state = "WINS"
       /\ IF button = "wins_done"
          THEN RecapStep(button, "BLOCKERS", user_data, jr_files, jr_log, rc_wrote)
          ELSE IF button = "win:Good focus block"
          THEN RecapStep(button, "WINS", added(<< "Good focus block" >>), jr_files, jr_log,
                         rc_wrote)
          ELSE IF button = ""
          THEN RecapStep("text", "WINS", added(parts), jr_files, jr_log, rc_wrote)
          ELSE RecapStep(button, "WINS", user_data, jr_files, jr_log, rc_wrote)

\* recap_blockers_handler, on a button tapped or, with button = "", on a
\* text whose comma-separated parts are `parts`
RecapBlockers(button, parts) ==
    LET recap == user_data["recap"]
        added(items) == [user_data EXCEPT !["recap"] =
                            [recap EXCEPT !.blockers = recap.blockers \o items]]
    IN /\ rc_state = "BLOCKERS"
       /\ IF button = "blockers_done"
          THEN RecapStep(button, "ENERGY", user_data, jr_files, jr_log, rc_wrote)
          ELSE IF button = "blocker:Interruptions"
          THEN RecapStep(button, "BLOCKERS", added(<< "Interruptions" >>), jr_files, jr_log,
                         rc_wrote)
          ELSE IF button = ""
          THEN RecapStep("text", "BLOCKERS", added(parts), jr_files, jr_log, rc_wrote)
          ELSE RecapStep(button, "BLOCKERS", user_data, jr_files, jr_log, rc_wrote)

\* recap_energy_handler, on a button tapped
RecapEnergy(button) ==
    LET recap == user_data["recap"] IN
    /\ rc_state = "ENERGY"
    /\ IF button = "energy:high"
       THEN RecapStep(button, "TOMORROW",
                      [user_data EXCEPT !["recap"] = [recap EXCEPT !.energy = "high"]],
                      jr_files, jr_log, rc_wrote)
       ELSE RecapStep(button, "ENERGY", user_data, jr_files, jr_log, rc_wrote)

\* recap_tomorrow_handler, on a text: the recap is appended to the file of
\* its date and the recap data removed
RecapTomorrow(text) ==
    LET recap == [user_data["recap"] EXCEPT !.tomorrow_focus = text]
        recap_md == << "wins:" >> \o recap.wins \o << "blockers:" >> \o recap.blockers
                    \o << "energy:", recap.energy, "focus:", recap.tomorrow_focus >>
        section == << << "## ", "Evening Recap" >>, << >>, recap_md >>
        output_file == recap.date
        written ==
            IF output_file \in DOMAIN jr_files
            THEN jr_files[output_file] \o << << >>, << "---" >>, << >> >> \o section
            ELSE section
    IN /\ rc_state = "TOMORROW"
       /\ RecapStep("text", "END",
                    [k \in DOMAIN user_data \ { "recap", "journal_dir" } |-> user_data[k]],
                    [d \in DOMAIN jr_files \cup { output_file } |->
                        IF d = output_file THEN written ELSE jr_files[d]],
                    [d \in DOMAIN jr_log \cup { output_file } |->
                        IF d # output_file THEN jr_log[d]
                        ELSE Append(IF d \in DOMAIN jr_log THEN jr_log[d] ELSE << >>,
                                    [header |-> "Evening Recap", content |-> recap_md])],
                    rc_wrote + 1)

\* (variant: the recap data kept)
RecapCancelKeepingData ==
    /\ rc_state # "END"
    /\ RecapStep("/cancel", "END", user_data, jr_files, jr_log, rc_wrote)
\* recap_cancel_handler, the fallback /cancel of every state
RecapCancel ==
    /\ rc_state # "END"
    /\ RecapStep("/cancel", "END",
                 [k \in DOMAIN user_data \ { "recap", "journal_dir" } |-> user_data[k]],
                 jr_files, jr_log, rc_wrote)

\* The buttons are those of the messages of the conversation; a button of
\* an earlier message can be tapped in a later state
JournalNext ==
    LET buttons == { "recap_overwrite", "recap_cancel", "wins_done",
                     "win:Good focus block", "blockers_done", "blocker:Interruptions",
                     "energy:high" }
    IN \/ \E d \in { 0, 1 }, h \in { "Morning Briefing", "Weekly Plan" } :
             JournalAppend(d, h, << "output" >>)
       \/ RecapStart
       \/ \E b \in buttons : RecapConfirm(b)
       \/ \E b \in buttons : RecapWins(b, << >>)
       \/ RecapWins("", << "Walked" >>)
       \/ \E b \in buttons : RecapBlockers(b, << >>)
       \/ RecapBlockers("", << "Noise" >>)
       \/ \E b \in buttons : RecapEnergy(b)
       \/ RecapTomorrow("Ship it")
       \/ RecapCancel

SpecJournal == JournalInit /\ [][JournalNext]_vars

(***************************************************************************)
(* Claims about the journal and the recap conversation                     *)
(***************************************************************************)
\* C25: appending never loses earlier content: the file of a date exists
\* exactly when a section was written for it, and it holds every section
\* written for that date in the order written, the first one alone at the
\* top and each later one after a blank line, a "---" line and a blank
\* line; nothing else is in the file, so a write for one date leaves the
\* files of the other dates as they were
C25_AppendKeepsEarlierSections ==
    /\ DOMAIN jr_files = DOMAIN jr_log
    /\ \A d \in DOMAIN jr_log :
          LET file == jr_files[d]
              written == jr_log[d]
          IN /\ Len(written) >= 1
             /\ Len(file) = 6 * Len(written) - 3
             /\ \A k \in 1..Len(written) :
                   /\ file[6 * k - 5] = << "## ", written[k].header >>
                   /\ file[6 * k - 4] = << >>
                   /\ file[6 * k - 3] = written[k].content
                   /\ k > 1 => /\ file[6 * k - 8] = << >>
                               /\ file[6 * k - 7] = << "---" >>
                               /\ file[6 * k - 6] = << >>

\* Witness: an append has just added a second section to a file
C25_Witness ==
    /\ rc_last = "append"
    /\ \E d \in DOMAIN jr_log :
          /\ Len(jr_log[d]) = 2
          /\ jr_log[d][2].header = "Weekly Plan"
          /\ jr_files[d][5] = << "---" >>

\* The number of "## Evening Recap" lines in the files of the journal
EveningRecapLines(files) ==
    Cardinality({ p \in UNION { { << d, i >> : i \in 1..Len(files[d]) } : d \in DOMAIN files } :
                    files[p[1]][p[2]] = << "## ", "Evening Recap" >> })

MaxCallItems == 2

RoInit ==
    /\ \E ts \in SeqsUpTo({ Task(1, 1, 2, "Eng", "TEXT"), Task(2, 5, None, "Home", "NOTE"),
                            Task(3, 3, 8, "Misc", "TEXT") }, MaxCallItems),
          evs \in SeqsUpTo({ Ev(TitleOOO, At(0, 9, 0, 0), At(0, 10, 0, 0), "Work", FALSE),
                             Ev(TitleOOO, At(0, 9, 0, 0), At(0, 10, 0, 0), "Personal", FALSE),
                             Ev(TitleStandup, At(0, 9, 30, 0), At(0, 11, 0, 0), "Work", FALSE),
                             Ev(TitleStandup, At(0, 8, 0, 0), None, "Work", FALSE) },
                           MaxCallItems) :
          ro_call = [pc |-> "start", op |-> "", tasks |-> ts, events |-> evs,
                     work_task_lists |-> << "Eng" >>, personal_task_lists |-> << "Home" >>,
                     tasks_before |-> ts, events_before |-> evs, result |-> << >>]
    /\ SlotIdle /\ OooIdle /\ ClsIdle /\ TaskIdle /\ SortIdle /\ TzIdle /\ ConfIdle /\ BrfIdle
    /\ JournalIdle

\* (variant: sort_by_priority sorting the list of the caller, tasks.sort(key=sort_key))
CoreCallSortingInPlace(op) ==
    /\ ro_call.pc = "start"
    /\ ro_call' =
          [ro_call EXCEPT
              !.pc = "returned",
              !.op = op,
              !.tasks = IF op = "sort_by_priority" THEN sort_by_priority(ro_call.tasks, 0, 0)
                        ELSE ro_call.tasks,
              !.result = IF op = "sort_by_priority" THEN sort_by_priority(ro_call.tasks, 0, 0)
                         ELSE << >>]
    /\ UNCHANGED << slotVars, oooVars, clsVars, taskVars, sortVars, tzVars, confVars, brfVars, journalVars >>
\* A call of the operation op on day 0 at 09:30, with urgent_days 3 and the
\* work hours 9 to 17: the value returned, built from new lists
\* (comprehensions, sorted(), append to a local list), and the lists of the
\* caller, written by no statement of the operations
CoreCall(op) ==
    LET ts == ro_call.tasks
        evs == ro_call.events
        wl == ro_call.work_task_lists
        pl == ro_call.personal_task_lists
        indices == OooIndices(evs)
        value ==
            CASE op = "filter_actionable" -> filter_actionable(ts, 3, 0, 0)
              [] op = "categorize_tasks" ->
                    << CategorizeWork(ts, wl, pl), CategorizePersonal(ts, wl, pl),
                       CategorizeOther(ts, wl, pl) >>
              [] op = "sort_by_priority" -> sort_by_priority(ts, 0, 0)
              [] op = "find_free_slots" -> find_free_slots(evs, 9, 17, 30, None, 0)
              [] op = "find_conflicts" -> find_conflicts(evs)
              [] op = "drop_redundant_ooo" ->
                    IF indices = {} THEN evs
                    ELSE Kept(evs, DropSet(evs, indices, OooCalendarsByDate(evs, indices)))
              [] op = "assemble_briefing" ->
                    assemble_briefing([tasks |-> ts, events |-> evs, work_task_lists |-> wl,
                                       personal_task_lists |-> pl, work_start |-> 9,
                                       work_end |-> 17, as_of |-> At(0, 9, 30, 0),
                                       urgent_days |-> 3],
                                      At(0, 9, 30, 0))
    IN /\ ro_call.pc = "start"
       /\ ro_call' = [ro_call EXCEPT !.pc = "returned", !.op = op, !.result = value]
       /\ UNCHANGED << slotVars, oooVars, clsVars, taskVars, sortVars, tzVars, confVars, brfVars, journalVars >>

RoNext ==
    \E op \in { "filter_actionable", "categorize_tasks", "sort_by_priority",
                "find_free_slots", "find_conflicts", "drop_redundant_ooo",
                "assemble_briefing" } : CoreCall(op)

SpecReadOnly == RoInit /\ [][RoNext]_vars

=============================================================================
